---------------------------- MODULE Spec2Model ----------------------------
(***************************************************************************)
(* Domain Puppy worker (src/worker/src/index.js).                          *)
(*                                                                         *)
(* Part 1: the admission guard chain of POST /v1/premium-check.  Each      *)
(* request is a cooperative task that is suspended at every await on the   *)
(* counter store (QUOTA_KV) and on the upstream fetch; one action of the   *)
(* model is the code between two such suspension points.  The counter      *)
(* store is one shared key/value map; a get and the put that follows it    *)
(* are two separate steps, so requests interleave between them.            *)
(* One calendar month and one one-minute window are modelled: the keys     *)
(* ip:{ip}:{YYYY-MM}, circuit:monthly:{YYYY-MM} and ratelimit:{ip}:{min}   *)
(* of that period.                                                         *)
(*                                                                         *)
(* Part 2: the RDAP lookup of one domain (checkDomainRdap).                *)
(***************************************************************************)
EXTENDS Integers, Sequences, FiniteSets, TLC

(***************************************************************************)
(* Bounds of the model.                                                    *)
(***************************************************************************)
\* requests begun in one behaviour
MaxRequests == 4
\* env.FREE_CHECKS_PER_IP as configured (the deployment's free allotment)
FREE_CHECKS_PER_IP == 2
\* env.MONTHLY_QUOTA_LIMIT as configured (the breaker's monthly ceiling)
MONTHLY_QUOTA_LIMIT == 3
\* the burst ceiling handlePremiumCheck passes to checkRateLimit (10 in the
\* source), scaled down so that a client can reach it within MaxRequests
maxPerMinute == 3
\* the ceiling handleVersionCheck passes (30 in the source), scaled down and
\* kept above maxPerMinute
versionMaxPerMinute == 5
\* requests that part 9 lets through in the window
MaxBurstRequests == 6

\* the fallbacks of parseInt(env.X, 10) || default
DefaultFreeChecks == 5
DefaultMonthlyLimit == 8000

\* client addresses (CF-Connecting-IP) and the tasks that may be in flight
Clients == {"ipA", "ipB"}
Slots == {1, 2}

VARIABLES
  kvMode,        \* "ok": reliable store; "flaky": any get/put may throw;
                 \* "absent": env.QUOTA_KV is not bound
  maxInFlight,   \* how many tasks the runtime has in flight: slots 1..maxInFlight
  rateKV,        \* ratelimit:{ip}:{minute} -> decimal string, <<>> when missing
  quotaKV,       \* ip:{ip}:{month} -> <<[checksUsed |-> n]>>, <<>> when missing
  circuitKV,     \* circuit:monthly:{month} -> <<[requestCount |-> n]>> or <<>>
  req,           \* per slot: the task's position, locals and history
  started,       \* requests begun so far
  alerts,        \* sendBreakerAlert invocations so far
  calls,         \* per client: upstream calls that succeeded so far
  rdap,          \* the RDAP lookup (part 2)
  whois,         \* the WHOIS lookup (part 3)
  single,        \* the checkSingleDomain call (part 4)
  valid,         \* the isValidDomain call (part 5)
  batch,         \* the handleDomainCheck request (part 6)
  mcp,           \* the MCP tool call (part 7)
  query,         \* the buildWhoisQuery call (part 8)
  burst          \* the endpoints' checkRateLimit calls (part 9)

vars ==
  <<kvMode, maxInFlight, rateKV, quotaKV, circuitKV, req, started, alerts, calls, rdap,
    whois, single, valid, batch, mcp, query, burst>>

(***************************************************************************)
(* Conversions.  A decimal string is a sequence of digits.                 *)
(***************************************************************************)
RECURSIVE StringOf(_)
\* String(n) for n >= 0
StringOf(n) ==
  IF n < 10 THEN <<n>> ELSE Append(StringOf(n \div 10), n % 10)

RECURSIVE SumOver(_, _)
\* the sum of f over the set S
SumOver(f, S) ==
  IF S = {} THEN 0
  ELSE LET x == CHOOSE y \in S : TRUE IN f[x] + SumOver(f, S \ {x})

RECURSIVE ParseInt(_)
\* parseInt(s, 10) of a non-empty digit string
ParseInt(s) ==
  IF Len(s) = 1 THEN s[1]
  ELSE 10 * ParseInt(SubSeq(s, 1, Len(s) - 1)) + s[Len(s)]

\* x || d on numbers: 0 (and NaN) are falsy
OrDefault(x, d) == IF x = 0 THEN d ELSE x

\* parseInt(env.FREE_CHECKS_PER_IP, 10) || 5
freeChecksPerIP == OrDefault(FREE_CHECKS_PER_IP, DefaultFreeChecks)
\* parseInt(env.MONTHLY_QUOTA_LIMIT, 10) || 8000
monthlyQuotaLimit == OrDefault(MONTHLY_QUOTA_LIMIT, DefaultMonthlyLimit)

Max(a, b) == IF a >= b THEN a ELSE b

(***************************************************************************)
(* Responses.                                                              *)
(***************************************************************************)
\* jsonResponse(body, status)
jsonResponse(body, status) == [status |-> status, body |-> body]

\* errorResponse(status, errorCode, message): message "" means none was given
errorResponse(status, errorCode, message) ==
  IF message # "" THEN jsonResponse([error |-> errorCode, message |-> message], status)
  ELSE jsonResponse([error |-> errorCode], status)

NoResp == [status |-> 0, body |-> [error |-> "pending"]]

RateLimitedResp ==
  errorResponse(429, "rate_limited", "Too many requests. Please wait a moment.")
CircuitOpenResp == errorResponse(503, "service_unavailable", "")
QuotaExceededResp == jsonResponse([error |-> "quota_exceeded", remainingChecks |-> 0], 429)

IsSuccess(resp) == resp.status = 200

(***************************************************************************)
(* The guards' decisions, as functions of what the store returned.         *)
(* raw is the value of the key (<<>>: the key is missing); failed: the get *)
(* threw.                                                                  *)
(***************************************************************************)
\* checkRateLimit, lines 289-291: the count read, and whether it rejects
RateCount(raw) == IF raw # <<>> THEN ParseInt(raw) ELSE 0

\* mutant: the ceiling itself is still let through
RateLimitedOffByOne(count) == count > maxPerMinute

RateLimited(count) == count >= maxPerMinute

\* mutant: the count is put back without the increment
RateNewValueNoIncrement(count) == StringOf(count)

\* checkRateLimit, line 292: the value put when the request is let through
RateNewValue(count) == StringOf(count + 1)

\* mutant: the breaker opens only above the ceiling
checkCircuitBreakerAbove(raw, failed) ==
  IF failed THEN [open |-> FALSE, requestCount |-> 0]
  ELSE LET requestCount == IF raw # <<>> THEN OrDefault(raw[1].requestCount, 0) ELSE 0
       IN  [open |-> requestCount > monthlyQuotaLimit, requestCount |-> requestCount]

\* checkCircuitBreaker
checkCircuitBreaker(raw, failed) ==
  IF failed THEN [open |-> FALSE, requestCount |-> 0]
  ELSE LET requestCount == IF raw # <<>> THEN OrDefault(raw[1].requestCount, 0) ELSE 0
       IN  [open |-> requestCount >= monthlyQuotaLimit, requestCount |-> requestCount]

\* mutant: a client at the allotment is still allowed
checkQuotaInclusive(raw, failed) ==
  IF failed THEN [allowed |-> TRUE, checksUsed |-> 0, remaining |-> freeChecksPerIP]
  ELSE LET checksUsed == IF raw # <<>> THEN OrDefault(raw[1].checksUsed, 0) ELSE 0
       IN  [allowed |-> checksUsed <= freeChecksPerIP,
            checksUsed |-> checksUsed,
            remaining |-> Max(0, freeChecksPerIP - checksUsed)]

\* mutant: a failed read blocks the request
checkQuotaFailClosed(raw, failed) ==
  IF failed THEN [allowed |-> FALSE, checksUsed |-> 0, remaining |-> 0]
  ELSE LET checksUsed == IF raw # <<>> THEN OrDefault(raw[1].checksUsed, 0) ELSE 0
       IN  [allowed |-> checksUsed < freeChecksPerIP,
            checksUsed |-> checksUsed,
            remaining |-> Max(0, freeChecksPerIP - checksUsed)]

\* checkQuota
checkQuota(raw, failed) ==
  IF failed THEN [allowed |-> TRUE, checksUsed |-> 0, remaining |-> freeChecksPerIP]
  ELSE LET checksUsed == IF raw # <<>> THEN OrDefault(raw[1].checksUsed, 0) ELSE 0
       IN  [allowed |-> checksUsed < freeChecksPerIP,
            checksUsed |-> checksUsed,
            remaining |-> Max(0, freeChecksPerIP - checksUsed)]

\* incrementQuota: the value put
QuotaNewValue(checksUsed) == <<[checksUsed |-> checksUsed + 1]>>

\* incrementMonthlyCount: the count read, the value put, the trip test
MonthlyCount(raw) == IF raw # <<>> THEN OrDefault(raw[1].requestCount, 0) ELSE 0

MonthlyNewValue(requestCount) == <<[requestCount |-> requestCount + 1]>>

\* mutant: the trip is the first count above the ceiling
BreakerTrippedAbove(newCount, requestCount) ==
  newCount > monthlyQuotaLimit /\ requestCount <= monthlyQuotaLimit

\* mutant: the pre-increment count is not looked at
BreakerTrippedNoPre(newCount, requestCount) == newCount >= monthlyQuotaLimit

BreakerTripped(newCount, requestCount) ==
  newCount >= monthlyQuotaLimit /\ requestCount < monthlyQuotaLimit

(***************************************************************************)
(* A request task.  pc is the suspension point the task is at:             *)
(*   rlGet, rlPut : checkRateLimit's get and put                           *)
(*   cbGet        : checkCircuitBreaker's get                              *)
(*   quotaGet     : checkQuota's get                                       *)
(*   upstream     : body checks, token check and the Domainr fetch         *)
(*   inc          : Promise.all([incrementQuota, incrementMonthlyCount]);  *)
(*                  incQ and incM are the positions of the two branches    *)
(*   done         : the response has been returned                         *)
(* count, cbCount, checksUsed and requestCount are the locals of the same  *)
(* names; count is cleared when checkRateLimit has let the request         *)
(* through, cbCount when the request leaves the guard chain.  guard,       *)
(* reads, writes, kvErr, outcome and fetched record what the task did:     *)
(* which guard rejected it, which keys (ratelimit, circuit, ip) it read    *)
(* and wrote, which functions had a store call throw, how the body checks  *)
(* and the upstream call went, and whether fetch was called.               *)
(***************************************************************************)
IdleReq ==
  [pc |-> "idle", ip |-> "ipA", count |-> 0, cbCount |-> 0, checksUsed |-> 0,
   requestCount |-> 0, incQ |-> "none", incM |-> "none", resp |-> NoResp,
   guard |-> "none", reads |-> {}, writes |-> {}, kvErr |-> {}, outcome |-> "none",
   fetched |-> FALSE]

\* whether a store call throws
FailChoices == IF kvMode = "flaky" THEN BOOLEAN ELSE {FALSE}

UnchangedStore == UNCHANGED <<rateKV, quotaKV, circuitKV>>
UnchangedEnv ==
  UNCHANGED <<kvMode, maxInFlight, rdap, whois, single, valid, batch, mcp, query, burst>>

\* the task returns resp
Return(r, resp, guard) ==
  [r EXCEPT !.pc = "done", !.resp = resp, !.guard = guard,
            !.requestCount = 0, !.incQ = "none", !.incM = "none"]

\* a request arrives: handlePremiumCheck starts, up to checkRateLimit's get
Start(s, ip) ==
  /\ req[s].pc \in {"idle", "done"}
  /\ started < MaxRequests
  /\ s <= maxInFlight
  /\ req' = [req EXCEPT ![s] = [IdleReq EXCEPT !.pc = "rlGet", !.ip = ip]]
  /\ started' = started + 1
  /\ UNCHANGED <<alerts, calls>>
  /\ UnchangedStore
  /\ UnchangedEnv

\* checkRateLimit up to its put; handlePremiumCheck's 429 when limited
RlGet(s) ==
  /\ req[s].pc = "rlGet"
  /\ LET r == req[s] IN
     IF kvMode = "absent"
     THEN req' = [req EXCEPT ![s] = [r EXCEPT !.pc = "cbGet"]]
     ELSE \E failed \in FailChoices :
       IF failed
       THEN req' = [req EXCEPT ![s] = [r EXCEPT !.pc = "cbGet", !.kvErr = @ \cup {"checkRateLimit"}]]
       ELSE LET count == RateCount(rateKV[r.ip])
                r1 == [r EXCEPT !.count = count, !.reads = @ \cup {"ratelimit"}]
            IN  IF RateLimited(count)
                THEN req' = [req EXCEPT ![s] = Return(r1, RateLimitedResp, "burst")]
                ELSE req' = [req EXCEPT ![s] = [r1 EXCEPT !.pc = "rlPut"]]
  /\ UNCHANGED <<started, alerts, calls>>
  /\ UnchangedStore
  /\ UnchangedEnv

\* checkRateLimit's put and return { limited: false }
RlPut(s) ==
  /\ req[s].pc = "rlPut"
  /\ LET r == req[s] IN
     \E failed \in FailChoices :
       IF failed
       THEN /\ req' = [req EXCEPT ![s] = [r EXCEPT !.pc = "cbGet", !.count = 0,
                                                   !.kvErr = @ \cup {"checkRateLimit"}]]
            /\ UNCHANGED rateKV
       ELSE /\ rateKV' = [rateKV EXCEPT ![r.ip] = RateNewValue(r.count)]
            /\ req' = [req EXCEPT ![s] = [r EXCEPT !.pc = "cbGet", !.count = 0,
                                                   !.writes = @ \cup {"ratelimit"}]]
  /\ UNCHANGED <<quotaKV, circuitKV, started, alerts, calls>>
  /\ UnchangedEnv

\* checkCircuitBreaker; handlePremiumCheck's 503 when open
CbGet(s) ==
  /\ req[s].pc = "cbGet"
  /\ LET r == req[s] IN
     IF kvMode = "absent"
     THEN req' = [req EXCEPT ![s] = [r EXCEPT !.pc = "quotaGet"]]
     ELSE \E failed \in FailChoices :
       LET cb == checkCircuitBreaker(circuitKV, failed)
           r1 == IF failed THEN [r EXCEPT !.kvErr = @ \cup {"checkCircuitBreaker"}]
                 ELSE [r EXCEPT !.cbCount = cb.requestCount, !.reads = @ \cup {"circuit"}]
       IN  IF cb.open
           THEN req' = [req EXCEPT ![s] = Return(r1, CircuitOpenResp, "breaker")]
           ELSE req' = [req EXCEPT ![s] = [r1 EXCEPT !.pc = "quotaGet"]]
  /\ UNCHANGED <<started, alerts, calls>>
  /\ UnchangedStore
  /\ UnchangedEnv

\* checkQuota; handlePremiumCheck's quota_exceeded when not allowed
QuotaGet(s) ==
  /\ req[s].pc = "quotaGet"
  /\ LET r == req[s] IN
     IF kvMode = "absent"
     THEN req' = [req EXCEPT ![s] = [r EXCEPT !.pc = "upstream",
                                              !.checksUsed = checkQuota(<<>>, TRUE).checksUsed]]
     ELSE \E failed \in FailChoices :
       LET q  == checkQuota(quotaKV[r.ip], failed)
           r1 == IF failed THEN [r EXCEPT !.kvErr = @ \cup {"checkQuota"}, !.checksUsed = q.checksUsed]
                 ELSE [r EXCEPT !.checksUsed = q.checksUsed, !.reads = @ \cup {"ip"}]
       IN  IF ~q.allowed
           THEN req' = [req EXCEPT ![s] = Return(r1, QuotaExceededResp, "quota")]
           ELSE req' = [req EXCEPT ![s] = [r1 EXCEPT !.pc = "upstream"]]
  /\ UNCHANGED <<started, alerts, calls>>
  /\ UnchangedStore
  /\ UnchangedEnv

(***************************************************************************)
(* The request body, the token and the upstream call: every way lines      *)
(* 984-1054 of handlePremiumCheck can go.                                  *)
(***************************************************************************)
Outcomes ==
  {"too_large", "bad_content_type", "bad_json", "no_domain", "not_string",
   "invalid_domain", "no_token", "network_fail", "upstream_429",
   "upstream_error", "unparsable", "ok"}

\* the outcomes in which fetch() was called (line 1025)
Fetched(outcome) ==
  outcome \in {"network_fail", "upstream_429", "upstream_error", "unparsable", "ok"}

\* the early returns of lines 984-1054
FailureResp(outcome) ==
  CASE outcome = "too_large" ->
         errorResponse(413, "payload_too_large", "Request body too large")
    [] outcome = "bad_content_type" ->
         errorResponse(400, "bad_request", "Content-Type must be application/json")
    [] outcome = "bad_json" ->
         errorResponse(400, "bad_request", "Request body is not valid JSON")
    [] outcome = "no_domain" ->
         errorResponse(400, "bad_request", "Missing required field: domain")
    [] outcome = "not_string" ->
         errorResponse(400, "bad_request", "Field \"domain\" must be a string")
    [] outcome = "invalid_domain" ->
         errorResponse(400, "bad_request", "Invalid domain format")
    [] outcome = "upstream_429" -> QuotaExceededResp
    [] OTHER -> errorResponse(503, "service_unavailable", "")

\* mutant: the upstream's non-OK status is not checked
CallSucceededIgnoringStatus(outcome) == outcome \in {"ok", "upstream_error"}

\* mutant: the increments run whatever the upstream call did
CallSucceededAlways(outcome) == Fetched(outcome)

\* whether control reaches line 1060, the increments
CallSucceeded(outcome) == outcome = "ok"

\* lines 1065-1070; the Domainr status mapping is not modelled
SuccessResp(checksUsed) ==
  jsonResponse([status |-> "mapped",
                remainingChecks |-> Max(0, freeChecksPerIP - (checksUsed + 1))], 200)

Upstream(s) ==
  /\ req[s].pc = "upstream"
  /\ \E outcome \in Outcomes :
       LET r1 == [req[s] EXCEPT !.outcome = outcome, !.fetched = Fetched(outcome),
                                !.cbCount = 0] IN
       IF CallSucceeded(outcome)
       THEN /\ req' = [req EXCEPT ![s] = [r1 EXCEPT !.pc = "inc", !.incQ = "put", !.incM = "get"]]
            /\ calls' = [calls EXCEPT ![r1.ip] = @ + 1]
       ELSE /\ req' = [req EXCEPT ![s] = Return(r1, FailureResp(outcome), "none")]
            /\ UNCHANGED calls
  /\ UNCHANGED <<started, alerts>>
  /\ UnchangedStore
  /\ UnchangedEnv

\* incrementQuota
IncQuotaPut(s) ==
  /\ req[s].pc = "inc"
  /\ req[s].incQ = "put"
  /\ LET r == req[s] IN
     IF kvMode = "absent"
     THEN /\ req' = [req EXCEPT ![s] = [r EXCEPT !.incQ = "done"]]
          /\ UNCHANGED quotaKV
     ELSE \E failed \in FailChoices :
       IF failed
       THEN /\ req' = [req EXCEPT ![s] = [r EXCEPT !.incQ = "done",
                                                   !.kvErr = @ \cup {"incrementQuota"}]]
            /\ UNCHANGED quotaKV
       ELSE /\ quotaKV' = [quotaKV EXCEPT ![r.ip] = QuotaNewValue(r.checksUsed)]
            /\ req' = [req EXCEPT ![s] = [r EXCEPT !.incQ = "done", !.writes = @ \cup {"ip"}]]
  /\ UNCHANGED <<rateKV, circuitKV, started, alerts, calls>>
  /\ UnchangedEnv

\* incrementMonthlyCount up to its put
IncMonthlyGet(s) ==
  /\ req[s].pc = "inc"
  /\ req[s].incM = "get"
  /\ LET r == req[s] IN
     IF kvMode = "absent"
     THEN req' = [req EXCEPT ![s] = [r EXCEPT !.incM = "done"]]
     ELSE \E failed \in FailChoices :
       IF failed
       THEN req' = [req EXCEPT ![s] = [r EXCEPT !.incM = "done",
                                               !.kvErr = @ \cup {"incrementMonthlyCount"}]]
       ELSE req' = [req EXCEPT ![s] = [r EXCEPT !.incM = "put",
                                               !.requestCount = MonthlyCount(circuitKV),
                                               !.reads = @ \cup {"circuit"}]]
  /\ UNCHANGED <<started, alerts, calls>>
  /\ UnchangedStore
  /\ UnchangedEnv

\* incrementMonthlyCount's put, and the call of sendBreakerAlert on a trip
IncMonthlyPut(s) ==
  /\ req[s].pc = "inc"
  /\ req[s].incM = "put"
  /\ LET r == req[s] IN
     \E failed \in FailChoices :
       IF failed
       THEN /\ req' = [req EXCEPT ![s] = [r EXCEPT !.incM = "done",
                                                   !.kvErr = @ \cup {"incrementMonthlyCount"}]]
            /\ UNCHANGED <<circuitKV, alerts>>
       ELSE /\ circuitKV' = MonthlyNewValue(r.requestCount)
            /\ alerts' = IF BreakerTripped(r.requestCount + 1, r.requestCount)
                          THEN alerts + 1 ELSE alerts
            /\ req' = [req EXCEPT ![s] = [r EXCEPT !.incM = "done",
                                                   !.writes = @ \cup {"circuit"}]]
  /\ UNCHANGED <<rateKV, quotaKV, started, calls>>
  /\ UnchangedEnv

\* both increments have returned: the success response
Finish(s) ==
  /\ req[s].pc = "inc"
  /\ req[s].incQ = "done"
  /\ req[s].incM = "done"
  /\ req' = [req EXCEPT ![s] = Return(req[s], SuccessResp(req[s].checksUsed), "none")]
  /\ UNCHANGED <<started, alerts, calls>>
  /\ UnchangedStore
  /\ UnchangedEnv

(***************************************************************************)
(* Specifications of the guard chain.                                      *)
(*   Spec    : requests overlap (as many in flight as there are slots),    *)
(*             the store is reliable                                       *)
(*   SpecSeq : requests are handled one at a time; the store is reliable,  *)
(*             or its calls may throw, or the binding is absent            *)
(*   SpecLoad: the store is reliable; at most K requests are in flight,    *)
(*             for each K up to the number of slots                        *)
(***************************************************************************)
RdapIdle ==
  [pc |-> "idle", url |-> <<>>, attempts |-> 0, first |-> <<>>, httpStatus |-> <<>>,
   kinds |-> <<>>, waited |-> 0, result |-> [status |-> "pending"]]

\* whoisLookup and checkDomainWhois before the call: no socket, no text
WhoisIdle ==
  [pc |-> "idle", server |-> <<>>, socket |-> "none", connects |-> 0, closes |-> 0,
   response |-> <<>>, elapsed |-> 0, deadline |-> 0, readAt |-> 0, timer |-> 0,
   stop |-> "none", raw |-> <<>>,
   parsed |-> FALSE, result |-> [status |-> "pending"]]

\* checkSingleDomain before the call
SingleIdle ==
  [pc |-> "idle", domain |-> <<>>, route |-> "none", result |-> [status |-> "pending"]]

\* a JavaScript value: its typeof (with "null" and "array" told apart) and,
\* for a string, its characters, for an array, its elements
JsValue(type, value) == [type |-> type, value |-> value]
Undefined == JsValue("undefined", <<>>)

\* isValidDomain before the call
ValidIdle == [pc |-> "idle", input |-> Undefined, result |-> FALSE]

\* handleDomainCheck before the request
BatchIdle ==
  [pc |-> "idle", ip |-> "none",
   request |-> [contentType |-> TRUE, tooLarge |-> FALSE, body |-> Undefined],
   unique |-> <<>>, settled |-> <<>>, own |-> <<>>, resolutions |-> 0, resp |-> NoResp]

\* an MCP handler before the call
McpIdle ==
  [pc |-> "idle", tool |-> "none", arg |-> Undefined, sent |-> <<>>,
   fetched |-> "none", status |-> 0,
   body |-> [kind |-> "empty", data |-> "", spaced |-> FALSE],
   read |-> "none",
   result |-> [isError |-> FALSE, text |-> [data |-> [error |-> "pending"], spaced |-> FALSE]]]

\* the endpoints' checkRateLimit calls before any request: per slot the task
\* (endpoint, client, the count read, the answer, and how many requests of
\* the client had been let through when it arrived), and per client the
\* requests let through so far
BurstIdle ==
  [task |-> [s \in Slots |-> [pc |-> "idle", endpoint |-> "none", ip |-> "ipA",
                              count |-> 0, limited |-> FALSE, before |-> 0]],
   allowed |-> [ip \in Clients |-> 0]]

\* buildWhoisQuery before the call
QueryIdle == [pc |-> "idle", domain |-> <<>>, server |-> "none", result |-> <<>>]

InitStore ==
  /\ rateKV = [ip \in Clients |-> <<>>]
  /\ quotaKV = [ip \in Clients |-> <<>>]
  /\ circuitKV = <<>>
  /\ req = [s \in Slots |-> IdleReq]
  /\ started = 0
  /\ alerts = 0
  /\ calls = [ip \in Clients |-> 0]
  /\ rdap = RdapIdle
  /\ whois = WhoisIdle
  /\ single = SingleIdle
  /\ batch = BatchIdle
  /\ mcp = McpIdle
  /\ burst = BurstIdle

InitIdle == InitStore /\ valid = ValidIdle /\ query = QueryIdle

Init ==
  /\ kvMode = "ok"
  /\ maxInFlight = Cardinality(Slots)
  /\ InitIdle

InitSeq ==
  /\ kvMode \in {"ok", "flaky", "absent"}
  /\ maxInFlight = 1
  /\ InitIdle

Next ==
  \E s \in Slots :
    \/ \E ip \in Clients : Start(s, ip)
    \/ RlGet(s)
    \/ RlPut(s)
    \/ CbGet(s)
    \/ QuotaGet(s)
    \/ Upstream(s)
    \/ IncQuotaPut(s)
    \/ IncMonthlyGet(s)
    \/ IncMonthlyPut(s)
    \/ Finish(s)

Spec == Init /\ [][Next]_vars

SpecSeq == InitSeq /\ [][Next]_vars

\* requests of a reliable store with one request at a time or with as many
\* in flight as there are slots
InitLoad ==
  /\ kvMode = "ok"
  /\ maxInFlight \in 1..Cardinality(Slots)
  /\ InitIdle

SpecLoad == InitLoad /\ [][Next]_vars

(***************************************************************************)
(* Part 2: checkDomainRdap.  One lookup: the first fetch, and after a      *)
(* non-definitive first answer the 2-second wait and the second fetch.     *)
(* An HTTP status the code holds is <<code>>; null is <<>>.                *)
(***************************************************************************)
\* a domain is <<name, tld>>; three of the TLDs of RDAP_ROUTES
RdapDomains == {<<"example", "com">>, <<"example", "io">>, <<"example", "xyz">>}

\* the keys of RDAP_ROUTES that are modelled
RdapTlds == {"com", "io", "xyz"}

\* RDAP_ROUTES is an object literal, so RDAP_ROUTES[tld] also finds what every
\* object inherits from Object.prototype.  Of the inherited names only
\* "constructor" can be the last label of a valid lowercase domain.
ObjectPrototypeKeys == {"constructor"}

\* RDAP_ROUTES[tld](domain): for an own key the endpoint prefix and the
\* domain; for the inherited key Object(domain), a String object holding the
\* bare domain, which is no absolute URL (empty prefix)
RDAP_ROUTES(tld, domain) ==
  CASE tld = "com" -> <<"https://rdap.verisign.com/com/v1/domain/", domain>>
    [] tld = "io" -> <<"https://rdap.identitydigital.services/rdap/domain/", domain>>
    [] tld = "xyz" -> <<"https://rdap.centralnic.com/", tld, "/domain/", domain>>
    [] tld \in ObjectPrototypeKeys -> <<"", domain>>

\* the truthiness of RDAP_ROUTES[tld]
HasRdapRoute(tld) == tld \in RdapTlds \cup ObjectPrototypeKeys

\* what a fetch of the RDAP URL can end in
\* the delay before the retry (2000 ms), scaled
RetryDelayMs == 2

StatusCodes == {200, 201, 204, 400, 403, 404, 429, 499, 500, 503, 599, 600}

FetchOutcomes ==
  {[kind |-> k, status |-> 0] : k \in {"network_error", "abort"}}
    \cup {[kind |-> "response", status |-> c] : c \in StatusCodes}

\* what a fetch of this URL can end in: a string that is no absolute URL
\* makes fetch fail with a TypeError before anything is sent
FetchOutcomesFor(url) ==
  IF url[1] = "" THEN {[kind |-> "network_error", status |-> 0]} ELSE FetchOutcomes

\* mutant: the catch clause lets the abort of the timeout escape
fetchRdapCatchesNoAbort(outcome) == outcome.kind = "network_error"

\* fetchRdapStatus, the catch clause: it has no condition, so it takes every
\* failure of the fetch, the abort raised by the timer included
fetchRdapCatches(outcome) == outcome.kind \in {"network_error", "abort"}

\* whether the failure of the fetch leaves fetchRdapStatus, and with it
\* checkDomainRdap (which has no handler of its own), as an exception
RdapThrows(outcome) == outcome.kind # "response" /\ ~fetchRdapCatches(outcome)

\* fetchRdapStatus: response.status, or null on a network error or abort
fetchRdapStatus(outcome) ==
  IF outcome.kind = "response" THEN <<outcome.status>> ELSE <<>>

\* mutant: 404 is retried like a transient failure
isNonDefinitiveWith404(httpStatus) ==
  \/ httpStatus = <<>>
  \/ httpStatus = <<429>>
  \/ httpStatus = <<404>>
  \/ (httpStatus # <<>> /\ httpStatus[1] >= 500 /\ httpStatus[1] < 600)

\* mutant: every 4xx answer but 404 is retried as well
isNonDefinitiveAny4xx(httpStatus) ==
  \/ httpStatus = <<>>
  \/ (httpStatus # <<>> /\ httpStatus[1] >= 400 /\ httpStatus[1] < 600 /\ httpStatus[1] # 404)

\* mapRdapStatus
mapRdapStatus(httpStatus) ==
  IF httpStatus = 200 THEN "taken"
  ELSE IF httpStatus = 404 THEN "available"
  ELSE "unknown"

\* checkDomainRdap, line 564
isNonDefinitive(httpStatus) ==
  \/ httpStatus = <<>>
  \/ httpStatus = <<429>>
  \/ (httpStatus # <<>> /\ httpStatus[1] >= 500 /\ httpStatus[1] < 600)

\* mutant: an unknown result always says timeout
RdapResultAlwaysTimeout(httpStatus) ==
  LET status == IF httpStatus # <<>> THEN mapRdapStatus(httpStatus[1]) ELSE "unknown" IN
  IF status = "unknown"
  THEN [status |-> status, reason |-> <<"timeout">>]
  ELSE [status |-> status]

\* checkDomainRdap, lines 571-575
RdapResult(httpStatus) ==
  LET status == IF httpStatus # <<>> THEN mapRdapStatus(httpStatus[1]) ELSE "unknown" IN
  IF status = "unknown"
  THEN [status |-> status,
        reason |-> IF httpStatus = <<>> THEN <<"timeout">> ELSE <<"http_", httpStatus[1]>>]
  ELSE [status |-> status]

UnchangedGuards ==
  UNCHANGED <<kvMode, maxInFlight, rateKV, quotaKV, circuitKV, req, started, alerts, calls,
              valid, batch, mcp, query, burst>>

\* the lookup's locals once checkDomainRdap(domain, tld) has built the URL
\* and issued the first fetchRdapStatus
RdapCalled(domain, tld) ==
  [RdapIdle EXCEPT !.pc = "first", !.attempts = 1, !.url = RDAP_ROUTES(tld, domain)]

\* checkDomainRdap is called: the first fetchRdapStatus is issued
RdapStart ==
  /\ rdap.pc \in {"idle", "done"}
  /\ \E domain \in RdapDomains : rdap' = RdapCalled(domain, domain[2])
  /\ UnchangedGuards
  /\ UNCHANGED <<whois, single>>

\* the first fetch settles; without a retry the result is returned
RdapFirstReply ==
  /\ rdap.pc = "first"
  /\ \E outcome \in FetchOutcomesFor(rdap.url) :
       LET httpStatus == fetchRdapStatus(outcome)
           kinds == Append(rdap.kinds, outcome.kind) IN
       IF RdapThrows(outcome)
       THEN rdap' = [rdap EXCEPT !.pc = "threw", !.kinds = kinds]
       ELSE IF isNonDefinitive(httpStatus)
       THEN rdap' = [rdap EXCEPT !.pc = "delay", !.first = httpStatus,
                                 !.httpStatus = httpStatus, !.kinds = kinds]
       ELSE rdap' = [rdap EXCEPT !.pc = "done", !.first = httpStatus,
                                 !.httpStatus = httpStatus, !.kinds = kinds,
                                 !.result = RdapResult(httpStatus)]
  /\ UnchangedGuards
  /\ UNCHANGED <<whois, single>>

\* time passes while checkDomainRdap waits for its timer
RdapTick ==
  /\ rdap.pc = "delay"
  /\ rdap.waited < RetryDelayMs
  /\ rdap' = [rdap EXCEPT !.waited = @ + 1]
  /\ UnchangedGuards
  /\ UNCHANGED <<whois, single>>

\* mutant: the timer resolves the promise as soon as it is set
RetryDueAtOnce(waited) == TRUE

\* line 567: setTimeout(resolve, 2000) has run its delay
RetryDue(waited) == waited >= RetryDelayMs

\* the 2-second timer fires: the second fetchRdapStatus is issued
RdapDelayElapsed ==
  /\ rdap.pc = "delay"
  /\ RetryDue(rdap.waited)
  /\ rdap' = [rdap EXCEPT !.pc = "retry", !.attempts = @ + 1]
  /\ UnchangedGuards
  /\ UNCHANGED <<whois, single>>

\* mutant: a status code received by the first attempt is kept
AfterRetryKeepsFirstCode(first, retry) == IF first # <<>> THEN first ELSE retry

\* line 568: httpStatus is assigned what the retry returned
AfterRetry(first, retry) == retry

\* the second fetch settles; the result is returned
RdapRetryReply ==
  /\ rdap.pc = "retry"
  /\ \E outcome \in FetchOutcomesFor(rdap.url) :
       LET httpStatus == AfterRetry(rdap.httpStatus, fetchRdapStatus(outcome))
           kinds == Append(rdap.kinds, outcome.kind) IN
       IF RdapThrows(outcome)
       THEN rdap' = [rdap EXCEPT !.pc = "threw", !.kinds = kinds]
       ELSE rdap' = [rdap EXCEPT !.pc = "done", !.httpStatus = httpStatus,
                                 !.kinds = kinds, !.result = RdapResult(httpStatus)]
  /\ UnchangedGuards
  /\ UNCHANGED <<whois, single>>

InitRdap ==
  /\ kvMode = "ok"
  /\ maxInFlight = 0
  /\ InitIdle

NextRdap ==
  \/ RdapStart
  \/ RdapFirstReply
  \/ RdapTick
  \/ RdapDelayElapsed
  \/ RdapRetryReply

SpecRdap == InitRdap /\ [][NextRdap]_vars

(***************************************************************************)
(* Part 3: checkDomainWhois, whoisLookup and parseWhoisResponse.           *)
(* A text is a sequence of characters.  Four characters stand for what     *)
(* the code tells apart: a whitespace character, a non-ASCII letter (one   *)
(* UTF-16 code unit, two bytes in UTF-8), and the two marker lines         *)
(* "Domain Name:" and "DOMAIN NOT FOUND", each counted as one character.   *)
(* Sizes and times are scaled: the ceiling is a few characters, the        *)
(* deadline a few clock ticks.                                             *)
(***************************************************************************)
MAX_WHOIS_RESPONSE == 4
WHOIS_TIMEOUT_MS == 2
MaxChunk == 2

\* three of the twelve TLDs of WHOIS_TLDS
WHOIS_TLDS == {"co", "st", "my"}

SKIP_TLDS == {"es"}

\* WHOIS_SERVERS[tld] for the TLDs above and for es, <<>> when undefined
WHOIS_SERVERS(tld) ==
  CASE tld = "co" -> <<"whois.registry.co">>
    [] tld = "st" -> <<"whois.nic.st">>
    [] tld = "my" -> <<"whois.mynic.my">>
    [] tld = "es" -> <<"whois.nic.es">>
    [] OTHER -> <<>>

Chars == {" ", "U+00E9", "Domain Name:", "DOMAIN NOT FOUND"}

\* what reader.read() can deliver in one chunk: a chunk is given by the text
\* that TextDecoder.decode makes of it
Chunks == UNION {[1..n -> Chars] : n \in 1..MaxChunk}

\* the number of bytes of the UTF-8 encoding of a text: value.byteLength
RECURSIVE ByteLength(_)
ByteLength(text) ==
  IF text = <<>> THEN 0
  ELSE (IF Head(text) = "U+00E9" THEN 2 ELSE 1) + ByteLength(Tail(text))

\* /marker/i.test(r)
Test(marker, r) == \E i \in 1..Len(r) : r[i] = marker

\* !response || response.trim().length === 0
IsBlank(response) == \A i \in 1..Len(response) : response[i] = " "

\* mutant: whois.nic.st and whois.mynic.my want a marker for available too
WHOIS_PARSERS_MarkerForAvailable(server, r) ==
  CASE server \in {"whois.registry.co", "whois.nic.st", "whois.mynic.my"} ->
         IF Test("DOMAIN NOT FOUND", r) THEN "available"
         ELSE IF Test("Domain Name:", r) THEN "taken"
         ELSE "unknown"
    [] server = "whois.nic.es" ->
         IF Test("Domain Name:", r) THEN "taken" ELSE "unknown"

\* WHOIS_PARSERS[server](r), for texts over Chars
WHOIS_PARSERS(server, r) ==
  CASE server = "whois.registry.co" ->
         IF Test("DOMAIN NOT FOUND", r) THEN "available"
         ELSE IF Test("Domain Name:", r) THEN "taken"
         ELSE "unknown"
    [] server \in {"whois.nic.st", "whois.mynic.my"} ->
         IF ~Test("Domain Name:", r) THEN "available"
         ELSE IF Test("Domain Name:", r) THEN "taken"
         ELSE "unknown"
    [] server = "whois.nic.es" ->
         IF Test("Domain Name:", r) THEN "taken" ELSE "unknown"

\* mutant: the blank response goes to the per-server parser as well
parseWhoisResponseNoBlankCheck(response, server) ==
  [status |-> WHOIS_PARSERS(server, response), parsed |-> TRUE]

\* parseWhoisResponse: the status, and whether the per-server parser ran
parseWhoisResponse(response, server) ==
  IF IsBlank(response)
  THEN [status |-> "unknown", parsed |-> FALSE]
  ELSE [status |-> WHOIS_PARSERS(server, response), parsed |-> TRUE]

\* the ways a step of whoisLookup can fail
WhoisFailures == {"connect_error", "write_error", "read_error", "release_error"}

\* whoisLookup, the inner catch around the race (line 873): a rejected read
\* ends the loop like the timeout does, the text read so far is kept
ReadCatches(failure) == failure = "read_error"

\* whoisLookup, the outer catch (line 887): it has no condition and answers
\* every other failure with the empty string
whoisLookupCatches(failure) == failure \in WhoisFailures \ {"read_error"}

\* mutant: the finally block does not close the socket
whoisFinallyNoClose(socket) == socket

\* whoisLookup, the finally block: if (socket) socket.close()
whoisFinally(socket) == IF socket # "none" THEN "closed" ELSE socket

\* mutant: an inconclusive text is returned without a reason
checkDomainWhoisResultNoReason(threw, raw, server) ==
  IF threw THEN [status |-> "unknown", reason |-> <<"whois_error">>]
  ELSE [status |-> parseWhoisResponse(raw, server).status]

\* checkDomainWhois, lines 588-595: what it returns when whoisLookup threw,
\* or returned raw
checkDomainWhoisResult(threw, raw, server) ==
  IF threw THEN [status |-> "unknown", reason |-> <<"whois_error">>]
  ELSE LET status == parseWhoisResponse(raw, server).status IN
       IF status = "unknown"
       THEN [status |-> status, reason |-> <<"whois_inconclusive">>]
       ELSE [status |-> status]

\* checkDomainWhois(domain, tld) up to the first suspension of whoisLookup
WhoisCalled(domain, tld) ==
  LET server == WHOIS_SERVERS(tld) IN
  IF server = <<>>
  THEN [WhoisIdle EXCEPT !.pc = "done",
                         !.result = [status |-> "unknown", reason |-> <<"no_whois_server">>]]
  ELSE [WhoisIdle EXCEPT !.pc = "connect", !.server = server]

\* whoisLookup leaves the loop or fails: the catch and finally blocks run,
\* it returns, and checkDomainWhois classifies what it got.  stop is the
\* event that ended the lookup.
WhoisExit(stop) ==
  LET caught == stop \in WhoisFailures /\ whoisLookupCatches(stop)
      threw == stop \in WhoisFailures /\ ~ReadCatches(stop) /\ ~caught
      raw == IF caught \/ threw THEN <<>> ELSE whois.response
      socket == whoisFinally(whois.socket) IN
  [whois EXCEPT !.pc = "done", !.stop = stop, !.socket = socket,
                !.closes = IF socket # whois.socket THEN @ + 1 ELSE @,
                !.raw = raw,
                !.parsed = ~threw /\ parseWhoisResponse(raw, whois.server[1]).parsed,
                !.result = checkDomainWhoisResult(threw, raw, whois.server[1])]

UnchangedByWhois == UnchangedGuards /\ UNCHANGED <<rdap, single>>

\* connect() throws, or returns the socket and the query is written to it
WhoisConnect ==
  /\ whois.pc = "connect"
  /\ \E ok \in BOOLEAN :
       IF ok
       THEN whois' = [whois EXCEPT !.pc = "write", !.socket = "open", !.connects = @ + 1]
       ELSE whois' = [WhoisExit("connect_error") EXCEPT !.connects = @ + 1]
  /\ UnchangedByWhois

\* writer.write settles (nothing bounds how long that takes); after a
\* successful write the deadline is taken and the loop is entered
WhoisWriteSettles ==
  /\ whois.pc = "write"
  /\ \E ok \in BOOLEAN :
       IF ok
       THEN whois' = [whois EXCEPT !.pc = "looptop", !.elapsed = 0,
                                   !.deadline = 0 + WHOIS_TIMEOUT_MS]
       ELSE whois' = WhoisExit("write_error")
  /\ UnchangedByWhois

\* mutant: every read is given the whole timeout
remainingPerRead(deadline, now) == WHOIS_TIMEOUT_MS

\* line 862: deadline - Date.now()
remaining(deadline, now) == deadline - now

\* the head of the loop: the time left is computed; if there is some, the
\* read is started and the timer armed with the time left (elapsed is the
\* clock, readAt the time the read was started, timer the time the timer
\* is due)
WhoisLoopTop ==
  /\ whois.pc = "looptop"
  /\ LET left == remaining(whois.deadline, whois.elapsed) IN
     IF left <= 0
     THEN whois' = WhoisExit("deadline")
     ELSE whois' = [whois EXCEPT !.pc = "await", !.readAt = whois.elapsed,
                                 !.timer = whois.elapsed + left]
  /\ UnchangedByWhois

\* time passes: between two reads up to the deadline, during a read up to
\* the time the timer is due
WhoisTick ==
  /\ whois.pc \in {"looptop", "await"}
  /\ whois.elapsed < (IF whois.pc = "await" THEN whois.timer ELSE whois.deadline)
  /\ whois' = [whois EXCEPT !.elapsed = @ + 1]
  /\ UnchangedByWhois

\* the timer wins the race: the loop ends, and reader.releaseLock() runs
\* while the read is still pending, which either goes through or throws
\* (the platform decides); a throw is caught by the outer catch
WhoisTimerFires ==
  /\ whois.pc = "await"
  /\ whois.elapsed >= whois.timer
  /\ \E released \in BOOLEAN :
       whois' = IF released THEN WhoisExit("deadline") ELSE WhoisExit("release_error")
  /\ UnchangedByWhois

\* the read wins the race: end of stream, a rejection, or a chunk, which is
\* appended unless the size guard stops the loop
WhoisReadSettles ==
  /\ whois.pc = "await"
  /\ \/ whois' = WhoisExit("done")
     \/ whois' = WhoisExit("read_error")
     \/ \E value \in Chunks :
          IF Len(whois.response) + ByteLength(value) > MAX_WHOIS_RESPONSE
          THEN whois' = WhoisExit("overflow")
          ELSE whois' = [whois EXCEPT !.pc = "looptop", !.response = @ \o value]
  /\ UnchangedByWhois

(***************************************************************************)
(* Part 4: checkSingleDomain, as each entry of a batch is resolved.        *)
(***************************************************************************)
\* the TLDs tried: one with an RDAP route, the skipped one, three WHOIS
\* ones, and two that no table lists
SingleTlds == {"com", "es", "co", "st", "my", "constructor", "unknowntld"}

\* mutant: a TLD with a WHOIS server goes to WHOIS before the skip list is
\* looked at
checkSingleDomainWhoisFirst(tld) ==
  IF WHOIS_SERVERS(tld) # <<>> THEN "whois"
  ELSE IF tld \in SKIP_TLDS THEN "skip"
  ELSE IF HasRdapRoute(tld) THEN "rdap"
  ELSE "unsupported"

\* checkSingleDomain: the branch taken
checkSingleDomain(tld) ==
  IF tld \in SKIP_TLDS THEN "skip"
  ELSE IF tld \in WHOIS_TLDS THEN "whois"
  ELSE IF HasRdapRoute(tld) THEN "rdap"
  ELSE "unsupported"

\* checkSingleDomain, line 606 and line 615: the results it builds itself
SkipResult == [status |-> "skip", reason |-> <<"tld_not_supported">>]
UnsupportedResult == [status |-> "unknown", reason |-> <<"tld_not_supported">>]

\* checkSingleDomain(domain, tld) is called, with tld the last label
SingleStart ==
  /\ single.pc \in {"idle", "done"}
  /\ \E tld \in SingleTlds :
       LET domain == <<"example", tld>>
           route == checkSingleDomain(tld)
           called == [SingleIdle EXCEPT !.domain = domain, !.route = route] IN
       /\ single' =
            CASE route = "skip" -> [called EXCEPT !.pc = "done", !.result = SkipResult]
              [] route = "unsupported" ->
                   [called EXCEPT !.pc = "done", !.result = UnsupportedResult]
              [] OTHER -> [called EXCEPT !.pc = "awaiting"]
       /\ whois' = IF route = "whois" THEN WhoisCalled(domain, tld) ELSE WhoisIdle
       /\ rdap' = IF route = "rdap" THEN RdapCalled(domain, tld) ELSE RdapIdle
  /\ UnchangedGuards

\* the resolver that was called returns (or throws) and checkSingleDomain
\* passes that on
SingleReturn ==
  /\ single.pc = "awaiting"
  /\ LET sub == IF single.route = "whois" THEN whois ELSE rdap IN
     /\ sub.pc \in {"done", "threw"}
     /\ single' = [single EXCEPT !.pc = sub.pc, !.result = sub.result]
  /\ UnchangedGuards
  /\ UNCHANGED <<rdap, whois>>

InitSingle ==
  /\ kvMode = "ok"
  /\ maxInFlight = 0
  /\ InitIdle

NextSingle ==
  \/ SingleStart
  \/ SingleReturn
  \/ RdapFirstReply
  \/ RdapTick
  \/ RdapDelayElapsed
  \/ RdapRetryReply
  \/ WhoisConnect
  \/ WhoisWriteSettles
  \/ WhoisLoopTop
  \/ WhoisTick
  \/ WhoisTimerFires
  \/ WhoisReadSettles

SpecSingle == InitSingle /\ [][NextSingle]_vars

\* the steps of whoisLookup that the code takes by itself or that the clock
\* brings about: connect() returns or throws at once, the head of the loop
\* is synchronous, time passes, and a timer whose delay has passed fires.
\* When the write or a read settles is up to the server, so these two steps
\* are not required to happen.
WhoisFairness ==
  /\ WF_vars(WhoisConnect)
  /\ WF_vars(WhoisLoopTop)
  /\ WF_vars(WhoisTick)
  /\ WF_vars(WhoisTimerFires)

SpecSingleLive == InitSingle /\ [][NextSingle]_vars /\ WhoisFairness

(***************************************************************************)
(* Part 5: isValidDomain.  A string is the sequence of its characters.     *)
(* The lengths are scaled: a domain of a few characters, a label of fewer. *)
(***************************************************************************)
MaxDomainLength == 5
MaxLabelLength == 2

\* the lowercase ASCII letters and the digits that occur in the model
LowerLetters == {"a", "b", "c", "e", "i", "k", "o", "s"}
Digits == {"1"}

\* String.prototype.toLowerCase on one character: "A" stands for the
\* uppercase ASCII letters; U+212A (KELVIN SIGN) is the one character
\* outside ASCII whose lowercase form is an ASCII letter, k
LowerChar(ch) ==
  CASE ch = "A" -> "a"
    [] ch = "U+212A" -> "k"
    [] OTHER -> ch

\* domain.toLowerCase()
toLowerCase(str) == [i \in 1..Len(str) |-> LowerChar(str[i])]

\* str.split('.')
RECURSIVE Split(_)
Split(str) ==
  IF \A i \in 1..Len(str) : str[i] # "."
  THEN <<str>>
  ELSE LET dot == CHOOSE i \in 1..Len(str) :
                    str[i] = "." /\ \A j \in 1..(i - 1) : str[j] # "."
       IN  <<SubSeq(str, 1, dot - 1)>> \o Split(SubSeq(str, dot + 1, Len(str)))

\* /^[a-z0-9-]+$/.test(label)
LabelCharset(label) ==
  /\ label # <<>>
  /\ \A i \in 1..Len(label) : label[i] \in LowerLetters \cup Digits \cup {"-"}

\* /^\d+$/.test(tld)
AllDigits(label) == label # <<>> /\ \A i \in 1..Len(label) : label[i] \in Digits

\* the test applied to every label, lines 25-27
LabelOk(label) ==
  IF Len(label) = 0 \/ Len(label) > MaxLabelLength THEN FALSE
  ELSE IF label[1] = "-" \/ label[Len(label)] = "-" THEN FALSE
  ELSE LabelCharset(label)

\* isValidDomain
isValidDomain(domain) ==
  IF domain.type # "string" \/ domain.value = <<>> THEN FALSE
  ELSE IF Len(domain.value) > MaxDomainLength THEN FALSE
  ELSE LET labels == Split(toLowerCase(domain.value)) IN
       IF Len(labels) < 2 THEN FALSE
       ELSE IF ~(\A i \in 1..Len(labels) : LabelOk(labels[i])) THEN FALSE
       ELSE IF AllDigits(labels[Len(labels)]) THEN FALSE
       ELSE TRUE

\* the characters the argument is made of: a lowercase and an uppercase
\* letter, a digit, the hyphen, the dot, a character that is never allowed,
\* and the Kelvin sign
ValidatorChars == {"a", "A", "1", "-", ".", "_", "U+212A"}

\* the arguments tried: every string of up to one character more than the
\* longest domain, and values that are no strings
ValidatorInputs ==
  {JsValue("string", str) :
     str \in UNION {[1..n -> ValidatorChars] : n \in 0..(MaxDomainLength + 1)}}
    \cup {Undefined, JsValue("null", <<>>), JsValue("number", <<>>)}

UnchangedByValid ==
  UNCHANGED <<kvMode, maxInFlight, rateKV, quotaKV, circuitKV, req, started, alerts, calls,
              rdap, whois, single, batch, mcp, query, burst>>

\* isValidDomain(input) returns
ValidReturn ==
  /\ valid.pc = "called"
  /\ valid' = [valid EXCEPT !.pc = "done", !.result = isValidDomain(valid.input)]
  /\ UnchangedByValid

InitValid ==
  /\ kvMode = "ok"
  /\ maxInFlight = 0
  /\ InitStore
  /\ query = QueryIdle
  /\ \E input \in ValidatorInputs :
       valid = [pc |-> "called", input |-> input, result |-> FALSE]

NextValid == ValidReturn

SpecValid == InitValid /\ [][NextValid]_vars

(***************************************************************************)
(* Part 6: handleDomainCheck (POST /v1/check).  The request is its two     *)
(* header tests and its body; the body is what request.json() gives.  The  *)
(* ceiling on the array is scaled.  duration_ms is left out of the meta    *)
(* record (time is not modelled here).                                     *)
(***************************************************************************)
MaxBatchDomains == 3

\* a string value from its characters
Str(chars) == JsValue("string", chars)

\* the elements an array is made of: example-like domains with an RDAP, a
\* WHOIS and a skipped TLD, one of them also in capitals, a string that is
\* no valid domain, and a value that is no string
BatchEntries ==
  {Str(<<"a", ".", "i", "o">>), Str(<<"A", ".", "i", "o">>), Str(<<"b", ".", "c", "o">>),
   Str(<<"c", ".", "e", "s">>), Str(<<"_", ".", "i", "o">>), JsValue("number", <<>>)}

\* the arrays: up to one element more than the ceiling
BatchArrays == UNION {[1..n -> BatchEntries] : n \in 0..(MaxBatchDomains + 1)}

\* a body with the field domains holding v
BodyWith(v) == JsValue("object", <<v>>)

\* what request.json() gives: a rejection, null, a primitive, an object
\* without the field, an object whose field is no array, or one whose field
\* is an array
BatchBodies ==
  {JsValue("invalid_json", <<>>), JsValue("null", <<>>), JsValue("number", <<>>),
   JsValue("object", <<>>), BodyWith(Str(<<"a", ".", "i", "o">>))}
    \cup {BodyWith(JsValue("array", arr)) : arr \in BatchArrays}

\* the requests: any body under good headers, and one request for each
\* header test that fails
BatchRequests ==
  {[contentType |-> TRUE, tooLarge |-> FALSE, body |-> body] : body \in BatchBodies}
    \cup {[contentType |-> FALSE, tooLarge |-> FALSE, body |-> JsValue("object", <<>>)],
          [contentType |-> TRUE, tooLarge |-> TRUE, body |-> JsValue("object", <<>>)]}

\* mutant: the ceiling is applied to the distinct elements
TooManyDomainsDistinct(domains) ==
  Cardinality({domains[i] : i \in 1..Len(domains)}) > MaxBatchDomains

\* body.domains.length > 20
TooManyDomains(domains) == Len(domains) > MaxBatchDomains

\* mutant: the strings are taken as they were sent
normalisedAsSent(domains) == [i \in 1..Len(domains) |-> domains[i].value]

\* body.domains.map(d => d.toLowerCase()), for an array of strings
normalised(domains) == [i \in 1..Len(domains) |-> toLowerCase(domains[i].value)]

\* [...new Set(seq)]: the first occurrences, in order
RECURSIVE Unique(_)
Unique(seq) ==
  IF seq = <<>> THEN <<>>
  ELSE LET front == SubSeq(seq, 1, Len(seq) - 1)
           last == seq[Len(seq)] IN
       IF \E i \in 1..Len(front) : front[i] = last
       THEN Unique(front)
       ELSE Append(Unique(front), last)

\* mutant: only the first domain is validated
AllValidFirstOnly(unique) == isValidDomain(Str(unique[1]))

\* the loop of lines 680-684 finds no invalid domain
AllValid(unique) == \A i \in 1..Len(unique) : isValidDomain(Str(unique[i]))

\* handleDomainCheck from the header tests to the end of validation: the
\* response it returns, or "threw" (the in operator on a primitive), or
\* "accepted" with the domains to resolve
ValidateBatch(request) ==
  LET body == request.body
      reject(message) ==
        [kind |-> "response", resp |-> errorResponse(400, "bad_request", message),
         unique |-> <<>>]
  IN
  IF ~request.contentType
  THEN reject("Content-Type must be application/json")
  ELSE IF request.tooLarge
  THEN [kind |-> "response",
        resp |-> errorResponse(413, "payload_too_large", "Request body too large"),
        unique |-> <<>>]
  ELSE IF body.type = "invalid_json" THEN reject("Request body is not valid JSON")
  ELSE IF body.type = "null" THEN reject("Missing required field: domains")
  ELSE IF body.type # "object" THEN [kind |-> "threw", resp |-> NoResp, unique |-> <<>>]
  ELSE IF body.value = <<>> THEN reject("Missing required field: domains")
  ELSE LET domains == body.value[1] IN
  IF domains.type # "array" THEN reject("Field \"domains\" must be an array")
  ELSE IF Len(domains.value) = 0 THEN reject("Field \"domains\" must not be empty")
  ELSE IF TooManyDomains(domains.value)
  THEN reject("Field \"domains\" exceeds the maximum of 20 domains per request")
  ELSE IF \E i \in 1..Len(domains.value) : domains.value[i].type # "string"
  THEN reject("Each element in \"domains\" must be a string")
  ELSE LET unique == Unique(normalised(domains.value)) IN
  IF ~AllValid(unique) THEN reject("Invalid domain format")
  ELSE [kind |-> "accepted", resp |-> NoResp, unique |-> unique]

\* the characters of a string joined into one word
RECURSIVE Join(_)
Join(chars) == IF chars = <<>> THEN "" ELSE Head(chars) \o Join(Tail(chars))

\* domain.split('.').pop()
TldOf(domain) == Join(Split(domain)[Len(Split(domain))])

\* what the lookups of a batch are answered: an RDAP status or none, a WHOIS
\* text
BatchStatuses == {<<>>, <<200>>, <<404>>, <<503>>}
BatchTexts == {<<>>, <<"Domain Name:">>, <<"DOMAIN NOT FOUND">>}

\* the result of checkSingleDomain(domain, tld) when the (last) RDAP answer
\* is httpStatus and the WHOIS text is raw
SingleResult(tld, httpStatus, raw) ==
  LET route == checkSingleDomain(tld) IN
  CASE route = "skip" -> SkipResult
    [] route = "unsupported" -> UnsupportedResult
    [] route = "rdap" -> RdapResult(httpStatus)
    [] route = "whois" -> checkDomainWhoisResult(FALSE, raw, WHOIS_SERVERS(tld)[1])

\* mutant: every task reports under the first domain of the batch
TaskValueFirstDomain(unique, i, result) == [domain |-> unique[1], result |-> result]

\* line 693: what the task of the i-th domain returns
TaskValue(unique, i, result) == [domain |-> unique[i], result |-> result]

\* mutant: a skipped domain does not count as completed
IsCompletedNoSkip(result) == result.status \in {"available", "taken"}

\* line 708
IsCompleted(result) == result.status # "unknown"

\* results[key] = value
Put(f, key, value) == [k \in DOMAIN f \cup {key} |-> IF k = key THEN value ELSE f[k]]

\* lines 700-718: the loop over the first n settled results
RECURSIVE BuildResults(_, _)
BuildResults(settled, n) ==
  IF n = 0 THEN [results |-> <<>>, completed |-> 0, incomplete |-> 0]
  ELSE LET acc == BuildResults(settled, n - 1) IN
       IF settled[n].status = "fulfilled"
       THEN LET value == settled[n].value IN
            [results |-> Put(acc.results, value.domain, value.result),
             completed |-> acc.completed + (IF IsCompleted(value.result) THEN 1 ELSE 0),
             incomplete |-> acc.incomplete + (IF IsCompleted(value.result) THEN 0 ELSE 1)]
       ELSE [acc EXCEPT !.incomplete = @ + 1]

\* mutant: a batch without a single completed domain is answered 502
BatchResponseAllUnknown502(unique, settled) ==
  LET built == BuildResults(settled, Len(settled)) IN
  jsonResponse([version |-> "1", results |-> built.results,
                meta |-> [checked |-> Len(unique), completed |-> built.completed,
                          incomplete |-> built.incomplete]],
               IF built.completed = 0 THEN 502 ELSE 200)

\* lines 700-729: the response
BatchResponse(unique, settled) ==
  LET built == BuildResults(settled, Len(settled)) IN
  jsonResponse([version |-> "1", results |-> built.results,
                meta |-> [checked |-> Len(unique), completed |-> built.completed,
                          incomplete |-> built.incomplete]],
               200)

UnchangedByBatch ==
  UNCHANGED <<kvMode, maxInFlight, quotaKV, circuitKV, req, started, alerts, calls, rdap, whois,
              single, valid, mcp, query, burst>>

\* a request arrives and checkRateLimit runs (no other request is in
\* flight, so its get and put are taken together)
BatchStart ==
  /\ batch.pc = "idle"
  /\ \E request \in BatchRequests :
       LET ip == "ipA"
           count == RateCount(rateKV[ip]) IN
       IF RateLimited(count)
       THEN /\ batch' = [BatchIdle EXCEPT !.pc = "done", !.ip = ip, !.request = request,
                                          !.resp = RateLimitedResp]
            /\ UNCHANGED rateKV
       ELSE /\ batch' = [BatchIdle EXCEPT !.pc = "received", !.ip = ip,
                                          !.request = request]
            /\ rateKV' = [rateKV EXCEPT ![ip] = RateNewValue(count)]
  /\ UnchangedByBatch

\* the headers are tested, the body is read and validated; an accepted
\* batch starts one task for each distinct domain
BatchValidate ==
  /\ batch.pc = "received"
  /\ LET v == ValidateBatch(batch.request) IN
     batch' =
       CASE v.kind = "response" -> [batch EXCEPT !.pc = "done", !.resp = v.resp]
         [] v.kind = "threw" ->
              [batch EXCEPT !.pc = "done", !.resp = errorResponse(500, "internal_error", "")]
         [] v.kind = "accepted" ->
              [batch EXCEPT !.pc = "resolving", !.unique = v.unique,
                            !.settled = [i \in 1..Len(v.unique) |-> [status |-> "pending"]],
                            !.own = [i \in 1..Len(v.unique) |-> <<>>],
                            !.resolutions = Len(v.unique)]
  /\ UNCHANGED rateKV
  /\ UnchangedByBatch

\* the task of one domain ends, in any order among the tasks
BatchTaskSettles ==
  /\ batch.pc = "resolving"
  /\ \E i \in 1..Len(batch.unique), httpStatus \in BatchStatuses, raw \in BatchTexts :
       LET result == SingleResult(TldOf(batch.unique[i]), httpStatus, raw) IN
       /\ batch.settled[i].status = "pending"
       /\ batch' = [batch EXCEPT
                      !.settled[i] = [status |-> "fulfilled",
                                      value |-> TaskValue(batch.unique, i, result)],
                      !.own[i] = <<result>>]
  /\ UNCHANGED rateKV
  /\ UnchangedByBatch

\* Promise.allSettled resolves and the response is built
BatchRespond ==
  /\ batch.pc = "resolving"
  /\ \A i \in 1..Len(batch.unique) : batch.settled[i].status # "pending"
  /\ batch' = [batch EXCEPT !.pc = "done",
                            !.resp = BatchResponse(batch.unique, batch.settled)]
  /\ UNCHANGED rateKV
  /\ UnchangedByBatch

\* the counters the limiter may hold for the client when the request
\* arrives: none, or what earlier requests of the same minute have put
RateValues == {<<>>} \cup {RateNewValue(count) : count \in 0..(maxPerMinute - 1)}

InitBatch ==
  /\ kvMode = "ok"
  /\ maxInFlight = 0
  /\ \E raw \in RateValues : rateKV = [ip \in Clients |-> IF ip = "ipA" THEN raw ELSE <<>>]
  /\ quotaKV = [ip \in Clients |-> <<>>]
  /\ circuitKV = <<>>
  /\ req = [s \in Slots |-> IdleReq]
  /\ started = 0
  /\ alerts = 0
  /\ calls = [ip \in Clients |-> 0]
  /\ rdap = RdapIdle
  /\ whois = WhoisIdle
  /\ single = SingleIdle
  /\ valid = ValidIdle
  /\ batch = BatchIdle
  /\ mcp = McpIdle
  /\ burst = BurstIdle
  /\ query = QueryIdle

NextBatch ==
  \/ BatchStart
  \/ BatchValidate
  \/ BatchTaskSettles
  \/ BatchRespond

SpecBatch == InitBatch /\ [][NextBatch]_vars

(***************************************************************************)
(* Part 7: the MCP handlers handleCheck and handlePremiumCheck.  A JSON    *)
(* text is the value it denotes and whether it is written with spaces or   *)
(* compactly; JSON.stringify writes compactly.  The ceiling on the array   *)
(* is scaled.                                                              *)
(***************************************************************************)
McpMaxDomains == 3

McpTools == {"check", "premium_check"}

\* what an array passed as domains is made of
McpElements ==
  {Str(<<"a", ".", "i", "o">>), Str(<<"b", ".", "c", "o">>), Str(<<>>),
   JsValue("number", <<>>), JsValue("null", <<>>)}

\* args.domains of handleCheck: missing, null, a number, a string, an array
\* of up to one element more than the ceiling
McpDomainsInputs ==
  {Undefined, JsValue("null", <<>>), JsValue("number", <<>>), Str(<<"a", ".", "i", "o">>)}
    \cup {JsValue("array", arr) :
            arr \in UNION {[1..n -> McpElements] : n \in 0..(McpMaxDomains + 1)}}

\* args.domain of handlePremiumCheck
McpDomainInputs ==
  {Undefined, JsValue("null", <<>>), JsValue("number", <<>>), JsValue("array", <<>>),
   Str(<<>>), Str(<<"a", ".", "i", "o">>), Str(<<"b", ".", "c", "o">>)}

McpInputs(tool) == IF tool = "check" THEN McpDomainsInputs ELSE McpDomainInputs

\* JSON.stringify(value)
Stringify(value) == [data |-> value, spaced |-> FALSE]

\* the result of a handler that reports an error
McpError(payload) == [isError |-> TRUE, text |-> Stringify(payload)]

\* mutant: the elements of the array are tested for their type only
handleCheckRejectsTypesOnly(domains) ==
  IF domains.type # "array" \/ Len(domains.value) = 0
  THEN <<"domains must be a non-empty array">>
  ELSE IF Len(domains.value) > McpMaxDomains
  THEN <<"domains array must not exceed 20 elements">>
  ELSE IF \E i \in 1..Len(domains.value) : domains.value[i].type # "string"
  THEN <<"each element in domains must be a non-empty string">>
  ELSE <<>>

\* handleCheck, lines 27-73: the message of the rejection, if any (a
\* missing or null domains is no array)
handleCheckRejects(domains) ==
  IF domains.type # "array" \/ Len(domains.value) = 0
  THEN <<"domains must be a non-empty array">>
  ELSE IF Len(domains.value) > McpMaxDomains
  THEN <<"domains array must not exceed 20 elements">>
  ELSE IF \E i \in 1..Len(domains.value) :
            domains.value[i].type # "string" \/ Len(domains.value[i].value) = 0
  THEN <<"each element in domains must be a non-empty string">>
  ELSE <<>>

\* handlePremiumCheck, lines 149-163
handlePremiumCheckRejects(domain) ==
  IF domain.type # "string" \/ Len(domain.value) = 0
  THEN <<"domain must be a non-empty string">>
  ELSE <<>>

McpRejects(tool, arg) ==
  IF tool = "check" THEN handleCheckRejects(arg) ELSE handlePremiumCheckRejects(arg)

\* the request a handler sends
McpRequest(tool, arg) ==
  [url |-> IF tool = "check" THEN "/v1/check" ELSE "/v1/premium-check",
   body |-> Stringify(IF tool = "check" THEN [domains |-> arg] ELSE [domain |-> arg])]

\* what the fetch comes to, the statuses of a response, and its bodies: a
\* JSON text (of results or of a refusal), a text that is no JSON, nothing
McpFetchOutcomes == {"response", "network_error", "abort"}
McpStatuses == {200, 299, 429, 500}
McpBodies ==
  {[kind |-> "json", data |-> data, spaced |-> spaced] :
     data \in {"results", "quota_exceeded"}, spaced \in BOOLEAN}
    \cup {[kind |-> "html", data |-> "", spaced |-> FALSE],
          [kind |-> "empty", data |-> "", spaced |-> FALSE]}

\* how the reading of the body ends: completely, or with a failure of the
\* stream, or with the abort of the timer
McpReadOutcomes == {"complete", "network_error", "abort"}

\* response.ok
ResponseOk(status) == status >= 200 /\ status <= 299

\* what makes the awaited promise of the try block reject: the fetch or the
\* reading failed, or response.json() found no JSON
McpFailure(fetched, read, body) ==
  IF fetched # "response" THEN fetched
  ELSE IF read # "complete" THEN read
  ELSE IF body.kind # "json" THEN "syntax_error"
  ELSE "none"

\* mutant: the catch clause takes the failures of the network only
McpCatchesNetworkOnly(failure) == failure \in {"network_error", "abort"}

\* the catch clause of lines 114 and 204 has no condition
McpCatches(failure) == failure \in {"network_error", "abort", "syntax_error"}

\* lines 114-128 and 204-218
McpUnavailable(tool, failure) ==
  McpError([error |-> "worker_unavailable",
            message |-> IF failure = "abort"
                        THEN IF tool = "check" THEN "Request timed out after 30 seconds"
                             ELSE "Request timed out after 15 seconds"
                        ELSE "Worker is unreachable"])

UnchangedByMcp ==
  UNCHANGED <<kvMode, maxInFlight, rateKV, quotaKV, circuitKV, req, started, alerts, calls, rdap,
              whois, single, valid, batch, query, burst>>

\* a tool is called: the input is validated and, if valid, the request sent
McpCall ==
  /\ mcp.pc = "idle"
  /\ \E tool \in McpTools : \E arg \in McpInputs(tool) :
       LET rejected == McpRejects(tool, arg) IN
       mcp' = IF rejected # <<>>
              THEN [McpIdle EXCEPT !.pc = "done", !.tool = tool, !.arg = arg,
                      !.result = McpError([error |-> "invalid_input",
                                           message |-> rejected[1]])]
              ELSE [McpIdle EXCEPT !.pc = "fetching", !.tool = tool, !.arg = arg,
                      !.sent = <<McpRequest(tool, arg)>>]
  /\ UnchangedByMcp

\* the fetch settles: with a response, or rejected
McpFetchSettles ==
  /\ mcp.pc = "fetching"
  /\ \E fetched \in McpFetchOutcomes, status \in McpStatuses, body \in McpBodies :
       IF fetched = "response"
       THEN mcp' = [mcp EXCEPT !.pc = "reading", !.fetched = fetched, !.status = status,
                               !.body = body]
       ELSE mcp' = [mcp EXCEPT !.fetched = fetched,
                      !.pc = IF McpCatches(fetched) THEN "done" ELSE "threw",
                      !.result = IF McpCatches(fetched) THEN McpUnavailable(mcp.tool, fetched)
                                 ELSE @]
  /\ UnchangedByMcp

\* response.text() or response.json() settles
McpBodySettles ==
  /\ mcp.pc = "reading"
  /\ \E read \in McpReadOutcomes :
       LET failure == McpFailure(mcp.fetched, read, mcp.body) IN
       mcp' =
         IF ~ResponseOk(mcp.status)
         THEN [mcp EXCEPT !.pc = "done", !.read = read,
                 !.result =
                   McpError([error |-> "worker_error",
                             message |-> <<"Worker returned HTTP ", mcp.status>>,
                             status |-> mcp.status,
                             body |-> IF read = "complete" THEN mcp.body
                                      ELSE [kind |-> "empty", data |-> "",
                                            spaced |-> FALSE]])]
         ELSE IF failure = "none"
         THEN [mcp EXCEPT !.pc = "done", !.read = read,
                 !.result = [isError |-> FALSE, text |-> Stringify(mcp.body.data)]]
         ELSE IF McpCatches(failure)
         THEN [mcp EXCEPT !.pc = "done", !.read = read,
                 !.result = McpUnavailable(mcp.tool, failure)]
         ELSE [mcp EXCEPT !.pc = "threw", !.read = read]
  /\ UnchangedByMcp

InitMcp ==
  /\ kvMode = "ok"
  /\ maxInFlight = 0
  /\ InitIdle

NextMcp ==
  \/ McpCall
  \/ McpFetchSettles
  \/ McpBodySettles

SpecMcp == InitMcp /\ [][NextMcp]_vars

(***************************************************************************)
(* Part 8: buildWhoisQuery.  The domain is any string, a sequence of       *)
(* characters; CR and LF stand for carriage return and line feed.          *)
(***************************************************************************)
MaxQueryLength == 3

\* letters of both cases, a digit, the hyphen and the dot, and characters
\* the class does not list: underscore, space, CR, LF, the Kelvin sign
\* (lower-cased to k) and the long s (upper-cased to S)
QueryChars == {"a", "A", "1", "-", ".", "_", " ", "CR", "LF", "U+212A", "U+017F"}

QueryDomains == UNION {[1..n -> QueryChars] : n \in 0..MaxQueryLength}

\* a server with the plain format and the one of WHOIS_QUERY_FORMATS
QueryServers == {"whois.registry.co", "whois.denic.de"}

\* toUpperCase of one character
UpperChar(ch) ==
  CASE ch = "a" -> "A"
    [] ch = "b" -> "B"
    [] ch = "c" -> "C"
    [] ch = "e" -> "E"
    [] ch = "i" -> "I"
    [] ch = "k" -> "K"
    [] ch = "o" -> "O"
    [] ch = "s" -> "S"
    [] ch = "U+017F" -> "S"
    [] OTHER -> ch

\* the characters that are not ASCII
NonAscii == {"U+212A", "U+017F", "U+00E9"}

\* how a regular expression with the flag i and without the flag u
\* compares characters: by their upper case, except that a character
\* outside ASCII is not mapped into ASCII
Canonicalize(ch) ==
  IF ch \in NonAscii /\ UpperChar(ch) \notin NonAscii THEN ch ELSE UpperChar(ch)

\* the characters listed in the class [a-z0-9.-]
QueryClass == LowerLetters \cup Digits \cup {".", "-"}

\* mutant: the class lists the space as well
InClassOrSpace(ch) ==
  ch = " " \/ \E listed \in QueryClass : Canonicalize(listed) = Canonicalize(ch)

\* the character is matched by [a-z0-9.-] under the flag i, so that the
\* negated class leaves it alone
InClass(ch) == \E listed \in QueryClass : Canonicalize(listed) = Canonicalize(ch)

\* domain.replace(/[^a-z0-9.-]/gi, '')
RECURSIVE safeDomain(_)
safeDomain(domain) ==
  IF domain = <<>> THEN <<>>
  ELSE IF InClass(Head(domain)) THEN <<Head(domain)>> \o safeDomain(Tail(domain))
  ELSE safeDomain(Tail(domain))

\* WHOIS_QUERY_FORMATS[server]: what the formatter puts in front
QueryPrefix(server) ==
  IF server = "whois.denic.de"
  THEN <<"-", "T", " ", "d", "n", ",", "a", "c", "e", " ">>
  ELSE <<>>

buildWhoisQuery(domain, server) == QueryPrefix(server) \o safeDomain(domain) \o <<"CR", "LF">>

UnchangedByQuery ==
  UNCHANGED <<kvMode, maxInFlight, rateKV, quotaKV, circuitKV, req, started, alerts, calls, rdap,
              whois, single, valid, batch, mcp, burst>>

\* buildWhoisQuery(domain, server) returns
QueryReturn ==
  /\ query.pc = "called"
  /\ query' = [query EXCEPT !.pc = "done",
                            !.result = buildWhoisQuery(query.domain, query.server)]
  /\ UnchangedByQuery

InitQuery ==
  /\ kvMode = "ok"
  /\ maxInFlight = 0
  /\ InitStore
  /\ valid = ValidIdle
  /\ \E domain \in QueryDomains, server \in QueryServers :
       query = [QueryIdle EXCEPT !.pc = "called", !.domain = domain, !.server = server]

NextQuery == QueryReturn

SpecQuery == InitQuery /\ [][NextQuery]_vars

(***************************************************************************)
(* Part 9: the burst limiter in front of the four endpoints.  Every        *)
(* handler begins with checkRateLimit(env, clientIP, ceiling) on the key   *)
(* ratelimit:{ip}:{minute}; one minute window is modelled, so the key is   *)
(* the client.  What a handler does after the limiter has let the request  *)
(* through is in parts 1 and 6.                                            *)
(***************************************************************************)
Endpoints == {"/v1/check", "/v1/premium-check", "/v1/whois-check", "/v1/version"}

\* the third argument of checkRateLimit at each call site: handleVersionCheck
\* passes its own ceiling, the others the default (handleDomainCheck passes
\* the same number explicitly)
CeilingOf(endpoint) ==
  IF endpoint = "/v1/version" THEN versionMaxPerMinute ELSE maxPerMinute

\* the requests let through so far, of all clients
BurstLetThrough == SumOver(burst.allowed, Clients)

UnchangedByBurst ==
  UNCHANGED <<kvMode, maxInFlight, quotaKV, circuitKV, req, started, alerts, calls, rdap,
              whois, single, valid, batch, mcp, query>>

\* a request of client ip arrives at an endpoint: the handler calls
\* checkRateLimit
BurstStart(s, endpoint, ip) ==
  /\ s <= maxInFlight
  /\ burst.task[s].pc \in {"idle", "done"}
  /\ BurstLetThrough < MaxBurstRequests
  /\ burst' = [burst EXCEPT !.task[s] =
                 [pc |-> "get", endpoint |-> endpoint, ip |-> ip, count |-> 0,
                  limited |-> FALSE, before |-> burst.allowed[ip]]]
  /\ UNCHANGED rateKV
  /\ UnchangedByBurst

\* checkRateLimit up to its put; the handler's 429 when limited
BurstGet(s) ==
  /\ burst.task[s].pc = "get"
  /\ LET t == burst.task[s]
         count == RateCount(rateKV[t.ip])
     IN  IF count >= CeilingOf(t.endpoint)
         THEN burst' = [burst EXCEPT !.task[s] = [t EXCEPT !.pc = "done", !.count = count,
                                                          !.limited = TRUE]]
         ELSE burst' = [burst EXCEPT !.task[s] = [t EXCEPT !.pc = "put", !.count = count]]
  /\ UNCHANGED rateKV
  /\ UnchangedByBurst

\* checkRateLimit's put and return { limited: false }
BurstPut(s) ==
  /\ burst.task[s].pc = "put"
  /\ LET t == burst.task[s] IN
     /\ rateKV' = [rateKV EXCEPT ![t.ip] = RateNewValue(t.count)]
     /\ burst' = [burst EXCEPT !.task[s] = [t EXCEPT !.pc = "done"],
                               !.allowed[t.ip] = @ + 1]
  /\ UnchangedByBurst

InitBurst ==
  /\ kvMode = "ok"
  /\ maxInFlight \in 1..Cardinality(Slots)
  /\ InitIdle

NextBurst ==
  \E s \in Slots :
    \/ \E endpoint \in Endpoints, ip \in Clients : BurstStart(s, endpoint, ip)
    \/ BurstGet(s)
    \/ BurstPut(s)

SpecBurst == InitBurst /\ [][NextBurst]_vars

(***************************************************************************)
(* Properties.                                                             *)
(***************************************************************************)
Done(s) == req[s].pc = "done"

\* C1: a request whose checkRateLimit read a window count at or above the
\* ceiling is answered 429 rate_limited, and it has read neither the breaker
\* record nor the quota record, written nothing and made no upstream call.
C1_BurstGuardFirst ==
  \A s \in Slots :
    ("ratelimit" \in req[s].reads /\ req[s].count >= maxPerMinute)
      => /\ Done(s)
         /\ req[s].resp = RateLimitedResp
         /\ req[s].reads = {"ratelimit"}
         /\ req[s].writes = {}
         /\ ~req[s].fetched

\* C1 witness: a burst rejection while the breaker is closed and the client
\* has quota left.
C1_Witness ==
  \E s \in Slots :
    /\ Done(s)
    /\ req[s].guard = "burst"
    /\ req[s].count >= maxPerMinute
    /\ MonthlyCount(circuitKV) < monthlyQuotaLimit
    /\ checkQuota(quotaKV[req[s].ip], FALSE).allowed

\* C2: only a request whose upstream call succeeded writes the client's
\* quota record; a request that ends in anything but the success response
\* has not written it.
C2_QuotaOnlyAfterSuccess ==
  \A s \in Slots :
    /\ "ip" \in req[s].writes => (req[s].outcome = "ok" /\ req[s].guard = "none")
    /\ (Done(s) /\ ~IsSuccess(req[s].resp)) => "ip" \notin req[s].writes

\* C2 witness: a failed upstream call of a client that has a quota record.
C2_Witness ==
  \E s \in Slots :
    /\ Done(s)
    /\ req[s].outcome = "upstream_error"
    /\ req[s].fetched
    /\ quotaKV[req[s].ip] # <<>>
    /\ "ip" \notin req[s].writes

\* C3: a request whose checkQuota read checksUsed at or above the free
\* allotment is answered 429 {error: quota_exceeded, remainingChecks: 0} and
\* has made no upstream call.
C3_QuotaRejectsBeforeUpstream ==
  \A s \in Slots :
    ("ip" \in req[s].reads /\ req[s].checksUsed >= freeChecksPerIP)
      => /\ Done(s)
         /\ req[s].resp = jsonResponse([error |-> "quota_exceeded", remainingChecks |-> 0], 429)
         /\ ~req[s].fetched
         /\ req[s].outcome = "none"

\* C3 witness: a quota rejection.
C3_Witness ==
  \E s \in Slots :
    /\ Done(s)
    /\ req[s].guard = "quota"
    /\ req[s].checksUsed >= freeChecksPerIP

\* C4 as stated: a request whose checkCircuitBreaker read a count at or above
\* the ceiling is answered 503 service_unavailable without a message, has
\* made no upstream call and has written no counter at all.
C4_BreakerRejectsNoWrite ==
  \A s \in Slots :
    req[s].cbCount >= monthlyQuotaLimit
      => /\ Done(s)
         /\ req[s].resp.status = 503
         /\ req[s].resp.body = [error |-> "service_unavailable"]
         /\ ~req[s].fetched
         /\ req[s].writes = {}

\* C4 amended: such a request is answered 503 service_unavailable without a
\* message, has read no quota record, made no upstream call and written
\* neither the quota nor the monthly counter; the only counter it can have
\* written is its own burst counter, before the breaker was consulted.
C4_BreakerRejects ==
  \A s \in Slots :
    req[s].cbCount >= monthlyQuotaLimit
      => /\ Done(s)
         /\ req[s].resp.status = 503
         /\ req[s].resp.body = [error |-> "service_unavailable"]
         /\ ~req[s].fetched
         /\ "ip" \notin req[s].reads
         /\ req[s].writes \subseteq {"ratelimit"}

\* C4 witness: the breaker rejects a client that has quota left, after that
\* request's burst counter was written.
C4_Witness ==
  \E s \in Slots :
    /\ Done(s)
    /\ req[s].guard = "breaker"
    /\ req[s].writes = {"ratelimit"}
    /\ checkQuota(quotaKV[req[s].ip], FALSE).allowed

\* C5 as stated: once the stored monthly count is at or above the ceiling,
\* no step stores a count below it.
C5_BreakerNeverReopens ==
  [][MonthlyCount(circuitKV) >= monthlyQuotaLimit
       => MonthlyCount(circuitKV') >= monthlyQuotaLimit]_vars

\* C6 as stated: every request that has been answered has incremented the
\* monthly counter.
C6_EveryAttemptCounted ==
  \A s \in Slots : Done(s) => "circuit" \in req[s].writes

\* C6 amended: the monthly counter is written only by requests whose upstream
\* call succeeded, and (the store being reliable) by every one of them before
\* it is answered.
C6_CountedOnlyAfterSuccess ==
  \A s \in Slots :
    /\ "circuit" \in req[s].writes => (req[s].outcome = "ok" /\ req[s].guard = "none")
    /\ (Done(s) /\ ~IsSuccess(req[s].resp)) => "circuit" \notin req[s].writes
    /\ (Done(s) /\ IsSuccess(req[s].resp)) => "circuit" \in req[s].writes

\* C6 witness: one answered request that failed at the upstream and did not
\* write the counter, and one that succeeded and did.
C6_Witness ==
  \E s, t \in Slots :
    /\ Done(s) /\ req[s].outcome = "network_fail" /\ "circuit" \notin req[s].writes
    /\ Done(t) /\ IsSuccess(req[t].resp) /\ "circuit" \in req[t].writes

\* C7: with requests handled one at a time, sendBreakerAlert has been called
\* once when the stored count is at or above the ceiling and not at all when
\* it is below: it is called at the crossing increment and at no later one.
C7_AlertExactlyOnce ==
  alerts = IF MonthlyCount(circuitKV) >= monthlyQuotaLimit THEN 1 ELSE 0

\* C7 witness: an increment was stored above the ceiling (the breaker's read
\* had failed open) and there is still one alert.
C7_Witness ==
  /\ MonthlyCount(circuitKV) > monthlyQuotaLimit
  /\ alerts = 1

GuardFns == {"checkRateLimit", "checkCircuitBreaker", "checkQuota"}

\* C8: a guard whose store call threw, or that has no store binding, does
\* not reject; a failed checkQuota reports checksUsed 0; a request all of
\* whose guards failed (or without a binding) reaches the body checks and,
\* when the upstream call succeeds, gets the success response of an empty
\* store whether or not the increments' store calls threw.
C8_FailOpen ==
  \A s \in Slots :
    LET r == req[s] IN
    /\ "checkRateLimit" \in r.kvErr => r.guard # "burst"
    /\ "checkCircuitBreaker" \in r.kvErr => r.guard # "breaker"
    /\ "checkQuota" \in r.kvErr => (r.guard # "quota" /\ r.checksUsed = 0)
    /\ kvMode = "absent" => (r.guard = "none" /\ r.reads = {} /\ r.writes = {})
    /\ (Done(s) /\ (kvMode = "absent" \/ GuardFns \subseteq r.kvErr))
         => /\ r.outcome # "none"
            /\ r.outcome = "ok" =>
                 /\ r.fetched
                 /\ r.resp = jsonResponse([status |-> "mapped",
                                            remainingChecks |-> freeChecksPerIP - 1], 200)

\* C8 witness: every store call of a request threw (the three guards and
\* both increments) and it was answered with the success response.
C8_Witness ==
  \E s \in Slots :
    /\ Done(s)
    /\ GuardFns \cup {"incrementQuota", "incrementMonthlyCount"} \subseteq req[s].kvErr
    /\ IsSuccess(req[s].resp)

\* C9: one at a time and with a reliable store, a checkRateLimit that finds
\* the stored count at or above the ceiling rejects and leaves the store as
\* it is; one that finds it below goes on to its put, which stores the count
\* plus one and lets the request through; the stored count never exceeds the
\* ceiling.
C9_Step ==
  \A s \in Slots :
    LET r == req[s]
        r2 == req'[s]
        stored == RateCount(rateKV[r.ip])
    IN  kvMode = "ok" =>
          /\ (r.pc = "rlGet" /\ r2.pc # "rlGet" /\ stored >= maxPerMinute)
               => (r2.pc = "done" /\ r2.guard = "burst" /\ rateKV' = rateKV)
          /\ (r.pc = "rlGet" /\ r2.pc # "rlGet" /\ stored < maxPerMinute)
               => (r2.pc = "rlPut" /\ rateKV' = rateKV)
          /\ (r.pc = "rlPut" /\ r2.pc # "rlPut")
               => /\ r2.pc = "cbGet"
                  /\ RateCount(rateKV'[r.ip]) = stored + 1
                  /\ \A ip \in Clients \ {r.ip} : rateKV'[ip] = rateKV[ip]
          /\ \A ip \in Clients : RateCount(rateKV'[ip]) <= maxPerMinute

C9_BurstLimiter == [][C9_Step]_vars

\* C9 witness: the window count is at the ceiling and a request was rejected.
C9_Witness ==
  \E s \in Slots :
    /\ kvMode = "ok"
    /\ Done(s)
    /\ req[s].guard = "burst"
    /\ RateCount(rateKV[req[s].ip]) = maxPerMinute

\* C10 as stated: a first answer with any 2xx status gives taken and a 404
\* gives available, each with one request and no reason.
C10_Any2xxTaken ==
  (rdap.pc = "done" /\ rdap.first # <<>>)
    => /\ (rdap.first[1] >= 200 /\ rdap.first[1] < 300)
            => (rdap.result = [status |-> "taken"] /\ rdap.attempts = 1)
       /\ rdap.first[1] = 404
            => (rdap.result = [status |-> "available"] /\ rdap.attempts = 1)

\* C10 amended: a first answer with status 200 exactly gives taken and a 404
\* gives available, each with one request and no reason; any other 2xx
\* status gives unknown with reason http_<code>, also with one request.
C10_FirstAnswerDefinitive ==
  (rdap.pc = "done" /\ rdap.first # <<>>)
    => /\ rdap.first[1] = 200
            => (rdap.result = [status |-> "taken"] /\ rdap.attempts = 1)
       /\ rdap.first[1] = 404
            => (rdap.result = [status |-> "available"] /\ rdap.attempts = 1)
       /\ (rdap.first[1] > 200 /\ rdap.first[1] < 300)
            => /\ rdap.result = [status |-> "unknown", reason |-> <<"http_", rdap.first[1]>>]
               /\ rdap.attempts = 1

\* C10 witness: a lookup answered 404 at its first request.
C10_Witness ==
  /\ rdap.pc = "done"
  /\ rdap.first = <<404>>
  /\ rdap.attempts = 1
  /\ rdap.result = [status |-> "available"]

\* the transient outcomes of an attempt: no response (network error or
\* timeout), HTTP 429, HTTP 5xx
TransientOutcome(httpStatus) ==
  \/ httpStatus = <<>>
  \/ (httpStatus # <<>> /\ (httpStatus[1] = 429 \/ httpStatus[1] \in 500..599))

\* C11: checkDomainRdap issues its second request if and only if the first
\* attempt ended in a transient outcome; every other first outcome (a 4xx
\* other than 404 included) is final; a lookup issues one or two requests.
C11_RetryIffTransient ==
  /\ rdap.attempts <= 2
  /\ rdap.pc \in {"delay", "retry"} => TransientOutcome(rdap.first)
  /\ rdap.pc = "done"
       => /\ rdap.attempts \in {1, 2}
          /\ rdap.attempts = 2 <=> TransientOutcome(rdap.first)

\* C11 witness: a lookup that retried after a 429.
C11_Witness ==
  /\ rdap.pc = "done"
  /\ rdap.first = <<429>>
  /\ rdap.attempts = 2

\* C12 as stated: after two non-definitive attempts the reason is timeout
\* only if neither attempt received a response, and http_<code> if a
\* response code was received in one of them.
C12_TimeoutOnlyIfNoResponseEver ==
  (rdap.pc = "done" /\ rdap.attempts = 2 /\ TransientOutcome(rdap.httpStatus))
    => /\ rdap.result.status = "unknown"
       /\ rdap.result.reason[1] = "timeout"
            => (rdap.first = <<>> /\ rdap.httpStatus = <<>>)
       /\ (rdap.first # <<>> \/ rdap.httpStatus # <<>>)
            => rdap.result.reason[1] = "http_"

\* C12 amended: after two non-definitive attempts the result is unknown and
\* its reason is decided by the retry alone: timeout when the retry received
\* no response (whatever the first attempt received), http_<code> with the
\* retry's status code when it received one.
C12_ReasonFromRetry ==
  (rdap.pc = "done" /\ rdap.attempts = 2 /\ TransientOutcome(rdap.httpStatus))
    => /\ rdap.result.status = "unknown"
       /\ rdap.httpStatus = <<>> => rdap.result.reason = <<"timeout">>
       /\ rdap.httpStatus # <<>>
            => (Len(rdap.result.reason) = 2 /\ rdap.result.reason[1] = "http_"
                /\ rdap.result.reason[2] = rdap.httpStatus[1])

\* C12 witness: the first attempt received a 500, the retry no response, and
\* the reason is timeout.
C12_Witness ==
  /\ rdap.pc = "done"
  /\ rdap.attempts = 2
  /\ rdap.first = <<500>>
  /\ rdap.httpStatus = <<>>
  /\ rdap.result.status = "unknown"
  /\ rdap.result.reason[1] = "timeout"

\* C13: checkDomainRdap never throws: whatever the transport outcome of each
\* attempt, the lookup ends with a result whose status is taken, available
\* or unknown, and an attempt that ended in a transport error is
\* non-definitive (a failed last attempt gives unknown).
C13_NeverThrows ==
  /\ rdap.pc # "threw"
  /\ rdap.pc = "done"
       => /\ Len(rdap.kinds) = rdap.attempts
          /\ rdap.result.status \in {"taken", "available", "unknown"}
          /\ rdap.kinds[1] # "response" => rdap.attempts = 2
          /\ rdap.kinds[Len(rdap.kinds)] # "response" => rdap.result.status = "unknown"

\* C13 witness: a network error, then the abort of the timeout, and the
\* lookup returned unknown.
C13_Witness ==
  /\ rdap.pc = "done"
  /\ rdap.kinds = <<"network_error", "abort">>
  /\ rdap.result.status = "unknown"

\* the last label of the domain checkSingleDomain was called with
SingleTld == single.domain[2]

\* fetch calls and connect() calls made for the domain being resolved
NetworkCalls == rdap.attempts + whois.connects

\* C14: a domain whose TLD is on the skip list gets status skip and no
\* network call is made for it (no RDAP fetch, no WHOIS connection), also
\* when WHOIS_SERVERS has an entry for that TLD.
C14_SkipNoNetwork ==
  (single.pc # "idle" /\ SingleTld \in SKIP_TLDS)
    => /\ single.pc = "done"
       /\ single.result.status = "skip"
       /\ NetworkCalls = 0
       /\ rdap.pc = "idle"
       /\ whois.pc = "idle"

\* C14 witness: example.es, whose TLD has a WHOIS server entry, was skipped.
C14_Witness ==
  /\ single.pc = "done"
  /\ SingleTld = "es"
  /\ WHOIS_SERVERS("es") # <<>>
  /\ single.result.status = "skip"

\* C15 as stated: a domain whose TLD is in none of the skip list, the WHOIS
\* TLD set and the RDAP route table gets {unknown, tld_not_supported} and no
\* network call is made for it.
C15_UnmappedNoNetwork ==
  (single.pc # "idle" /\ SingleTld \notin SKIP_TLDS \cup WHOIS_TLDS \cup RdapTlds)
    => /\ single.pc = "done"
       /\ single.result = [status |-> "unknown", reason |-> <<"tld_not_supported">>]
       /\ NetworkCalls = 0

\* C16 as stated: a result carries a reason only when its status is unknown
\* (available, taken and skip carry none), and every unknown result carries
\* one of the listed causes.
C16_ReasonOnlyWhenUnknown ==
  single.pc = "done"
    => /\ single.result.status \in {"available", "taken", "skip", "unknown"}
       /\ "reason" \in DOMAIN single.result <=> single.result.status = "unknown"
       /\ single.result.status = "unknown"
            => single.result.reason[1] \in
                 {"timeout", "http_", "tld_not_supported", "no_whois_server",
                  "whois_inconclusive", "whois_error"}

\* C16 amended: available and taken results carry no reason; every unknown
\* result carries one of the listed causes; a skip result carries the
\* reason tld_not_supported.
C16_ReasonWhenUnknownOrSkip ==
  single.pc = "done"
    => /\ single.result.status \in {"available", "taken", "skip", "unknown"}
       /\ "reason" \in DOMAIN single.result
            <=> single.result.status \in {"unknown", "skip"}
       /\ single.result.status = "skip"
            => single.result.reason = <<"tld_not_supported">>
       /\ single.result.status = "unknown"
            => single.result.reason[1] \in
                 {"timeout", "http_", "tld_not_supported", "no_whois_server",
                  "whois_inconclusive", "whois_error"}

\* C16 witness: the result of a skipped domain, which carries a reason.
C16_Witness ==
  /\ single.pc = "done"
  /\ single.result = [status |-> "skip", reason |-> <<"tld_not_supported">>]

\* C17 as stated: a WHOIS lookup in which the connection, the write or a
\* read failed yields {unknown, whois_error}.
C17_FailureGivesWhoisError ==
  (single.pc = "done" /\ single.route = "whois"
     /\ whois.stop \in {"connect_error", "write_error", "read_error"})
    => single.result = [status |-> "unknown", reason |-> <<"whois_error">>]

\* C18: a whoisLookup that opened a connection has closed it, once, when it
\* returns, whatever ended it: end of stream, deadline, size guard, write
\* failure or read failure; a lookup whose connect() threw closes nothing.
C18_SocketClosedOnExit ==
  /\ whois.closes <= 1
  /\ whois.pc = "done"
       => /\ whois.socket # "open"
          /\ whois.connects = 1 /\ whois.stop # "connect_error"
               => (whois.socket = "closed" /\ whois.closes = 1)
          /\ whois.stop \in {"connect_error", "none"}
               => (whois.socket = "none" /\ whois.closes = 0)
  /\ whois.pc \in {"write", "looptop", "await"}
       => (whois.socket = "open" /\ whois.closes = 0)

\* C18 witness: a lookup ended by a read failure after some text, socket
\* closed once.
C18_Witness ==
  /\ whois.pc = "done"
  /\ whois.stop = "read_error"
  /\ whois.response # <<>>
  /\ whois.socket = "closed"
  /\ whois.closes = 1

\* C19 as stated (its size part): the response accumulated by the read loop
\* never exceeds the ceiling, measured like the chunks are, in bytes.
C19_ResponseWithinCeiling ==
  ByteLength(whois.response) <= MAX_WHOIS_RESPONSE

\* C20: a response that is empty or all whitespace is classified unknown
\* and the per-server parser is not run on it, for every server, those whose
\* parser answers available for a text without the taken marker included.
C20_BlankIsUnknown ==
  (whois.pc = "done" /\ whois.stop # "none" /\ IsBlank(whois.raw))
    => /\ ~whois.parsed
       /\ whois.result = [status |-> "unknown", reason |-> <<"whois_inconclusive">>]

\* C20 witness: whois.nic.st sent whitespace only; its parser alone would
\* have answered available.
C20_Witness ==
  /\ whois.pc = "done"
  /\ whois.server = <<"whois.nic.st">>
  /\ whois.raw # <<>>
  /\ IsBlank(whois.raw)
  /\ WHOIS_PARSERS("whois.nic.st", whois.raw) = "available"
  /\ whois.result.status = "unknown"

\* the ASCII letters among the characters of the model
AsciiLetters == LowerLetters \cup {"A"}

\* what C29 says of a value: a string of at most the maximal length, with at
\* least two labels between dots, each of 1 to the maximal label length
\* characters that are letters, digits or hyphens, none beginning or ending
\* with a hyphen, the last one not all digits
StatedValid(input) ==
  /\ input.type = "string"
  /\ Len(input.value) <= MaxDomainLength
  /\ LET labels == Split(input.value) IN
     /\ Len(labels) >= 2
     /\ \A i \in 1..Len(labels) :
          /\ Len(labels[i]) \in 1..MaxLabelLength
          /\ \A j \in 1..Len(labels[i]) :
               labels[i][j] \in AsciiLetters \cup Digits \cup {"-"}
          /\ labels[i][1] # "-"
          /\ labels[i][Len(labels[i])] # "-"
     /\ ~AllDigits(labels[Len(labels)])

\* C29 as stated: isValidDomain returns true exactly for the values the
\* claim describes and false for everything else.
C29_ValidExactly ==
  valid.pc = "done" => (valid.result <=> StatedValid(valid.input))

\* the batch request got past the rate limiter, the header tests and the
\* parsing of the body, and the body holds an array under domains
ArrayReached ==
  /\ batch.pc \in {"resolving", "done"}
  /\ batch.resp # RateLimitedResp
  /\ batch.request.contentType
  /\ ~batch.request.tooLarge
  /\ batch.request.body.type = "object"
  /\ batch.request.body.value # <<>>
  /\ batch.request.body.value[1].type = "array"

\* the array as it was sent
SentDomains == batch.request.body.value[1].value

AllStrings == \A i \in 1..Len(SentDomains) : SentDomains[i].type = "string"

\* the entry is a string that passes domain validation once lower-cased
ValidEntry(entry) ==
  entry.type = "string" /\ isValidDomain(Str(toLowerCase(entry.value)))

\* the batch was accepted: its tasks were started
Accepted == batch.resolutions > 0

\* C21: when an entry of an array of strings fails domain validation, the
\* answer is a 400 validation error and no resolution was started for any
\* entry of the batch, the valid entries in front of the invalid one
\* included.
C21_RejectedAsAWhole ==
  (ArrayReached /\ AllStrings /\ \E i \in 1..Len(SentDomains) : ~ValidEntry(SentDomains[i]))
    => /\ batch.pc = "done"
       /\ batch.resp.status = 400
       /\ batch.resp.body.error = "bad_request"
       /\ batch.resolutions = 0
       /\ batch.settled = <<>>

\* a batch within the ceiling whose first entry is valid and whose second is
\* not has been rejected
C21_Witness ==
  /\ ArrayReached /\ AllStrings
  /\ batch.pc = "done"
  /\ Len(SentDomains) = 2
  /\ ValidEntry(SentDomains[1])
  /\ ~ValidEntry(SentDomains[2])
  /\ batch.resp.status = 400
  /\ batch.resolutions = 0

\* C22: an array of exactly the ceiling's number of valid entries is
\* accepted, and an array with more entries than the ceiling is rejected
\* with a 400 validation error and nothing started, whatever its entries
\* are: the size is that of the array as sent, duplicates included.
C22_CeilingOnArrayAsSent ==
  ArrayReached =>
    /\ (Len(SentDomains) > MaxBatchDomains
          => /\ batch.pc = "done"
             /\ batch.resp.status = 400
             /\ batch.resp.body.error = "bad_request"
             /\ ~Accepted)
    /\ ((Len(SentDomains) = MaxBatchDomains
           /\ \A i \in 1..Len(SentDomains) : ValidEntry(SentDomains[i]))
          => /\ Accepted
             /\ (batch.pc = "done" => batch.resp.status = 200))

\* an array of one valid domain repeated once more than the ceiling allows
\* has been rejected
C22_Witness ==
  /\ ArrayReached
  /\ batch.pc = "done"
  /\ Len(SentDomains) = MaxBatchDomains + 1
  /\ \A i \in 1..Len(SentDomains) :
        ValidEntry(SentDomains[i]) /\ SentDomains[i] = SentDomains[1]
  /\ batch.resp.status = 400

\* the distinct lower-cased domains of the request
DistinctLowercase == {toLowerCase(SentDomains[i].value) : i \in 1..Len(SentDomains)}

\* C23: the results of an accepted batch have exactly the distinct
\* lower-cased domains of the request as keys, each resolved once, and
\* meta.checked is their number.
C23_OneEntryPerDistinctDomain ==
  (batch.pc \in {"resolving", "done"} /\ Accepted)
    => /\ batch.resolutions = Cardinality(DistinctLowercase)
       /\ {batch.unique[i] : i \in 1..Len(batch.unique)} = DistinctLowercase
       /\ (batch.pc = "done"
             => /\ DOMAIN batch.resp.body.results = DistinctLowercase
                /\ batch.resp.body.meta.checked = Cardinality(DistinctLowercase))

\* a batch of three entries, two of them differing in letter case only, has
\* been answered with two results
C23_Witness ==
  /\ batch.pc = "done" /\ Accepted
  /\ Len(SentDomains) = 3
  /\ \E i, j \in 1..3 :
        /\ SentDomains[i] # SentDomains[j]
        /\ toLowerCase(SentDomains[i].value) = toLowerCase(SentDomains[j].value)
  /\ batch.resp.body.meta.checked = 2
  /\ Cardinality(DOMAIN batch.resp.body.results) = 2

\* C24: whatever the order in which the tasks of a batch end, every domain
\* of the batch has an entry in the results and the entry is what the
\* domain's own resolution returned.
C24_OwnResolutionOnly ==
  (batch.pc = "done" /\ Accepted)
    => \A i \in 1..Len(batch.unique) :
         /\ batch.unique[i] \in DOMAIN batch.resp.body.results
         /\ batch.resp.body.results[batch.unique[i]] = batch.own[i][1]

\* a batch has been answered in which one domain came out unknown and
\* another one taken
C24_Witness ==
  /\ batch.pc = "done" /\ Accepted
  /\ \E i, j \in 1..Len(batch.unique) :
        /\ batch.own[i][1].status = "unknown"
        /\ batch.own[j][1].status = "taken"
        /\ batch.resp.body.results[batch.unique[i]].status = "unknown"
        /\ batch.resp.body.results[batch.unique[j]].status = "taken"

\* the tasks of the batch whose resolution returned one of the statuses
TasksWith(statuses) ==
  {i \in 1..Len(batch.unique) : batch.own[i][1].status \in statuses}

\* C25: in the response to a batch, meta.completed is the number of
\* results that are not unknown (skip among them), meta.incomplete the
\* number of the unknown ones, and the two add up to meta.checked.
C25_MetaCounts ==
  (batch.pc = "done" /\ Accepted)
    => LET meta == batch.resp.body.meta IN
       /\ meta.completed = Cardinality(TasksWith({"available", "taken", "skip"}))
       /\ meta.incomplete = Cardinality(TasksWith({"unknown"}))
       /\ meta.completed + meta.incomplete = meta.checked

\* a batch with a skipped and an unknown domain has been answered
C25_Witness ==
  /\ batch.pc = "done" /\ Accepted
  /\ TasksWith({"skip"}) # {}
  /\ TasksWith({"unknown"}) # {}
  /\ batch.resp.body.meta.completed >= 1
  /\ batch.resp.body.meta.incomplete >= 1

\* C26: an accepted batch is answered with status 200 whatever its domains
\* came out as.
C26_AcceptedIs200 ==
  (batch.pc = "done" /\ Accepted) => batch.resp.status = 200

\* a batch of several domains that all came out unknown has been answered
C26_Witness ==
  /\ batch.pc = "done" /\ Accepted
  /\ Len(batch.unique) >= 2
  /\ TasksWith({"unknown"}) = 1..Len(batch.unique)
  /\ batch.resp.status = 200
  /\ batch.resp.body.meta.completed = 0

\* the input of the tool call is one the handlers are to refuse: domains
\* missing, no array, empty, longer than the ceiling or holding an element
\* that is no string or the empty string; domain missing, no string or empty
InvalidMcpInput ==
  IF mcp.tool = "check"
  THEN \/ mcp.arg.type # "array"
       \/ Len(mcp.arg.value) = 0
       \/ Len(mcp.arg.value) > McpMaxDomains
       \/ \E i \in 1..Len(mcp.arg.value) :
            mcp.arg.value[i].type # "string" \/ mcp.arg.value[i].value = <<>>
  ELSE mcp.arg.type # "string" \/ mcp.arg.value = <<>>

\* C27: a tool call with invalid input ends at once with an isError result
\* saying invalid_input, and no request is sent to the worker for it.
C27_InvalidInputNoWorkerCall ==
  (mcp.pc # "idle" /\ InvalidMcpInput)
    => /\ mcp.pc = "done"
       /\ mcp.result.isError
       /\ mcp.result.text.data.error = "invalid_input"
       /\ mcp.sent = <<>>

\* handleCheck has refused an array within the ceiling whose last element is
\* the empty string
C27_Witness ==
  /\ mcp.pc = "done"
  /\ mcp.tool = "check"
  /\ mcp.arg.type = "array"
  /\ Len(mcp.arg.value) = 2
  /\ mcp.arg.value[1] = Str(<<"a", ".", "i", "o">>)
  /\ mcp.arg.value[2] = Str(<<>>)
  /\ mcp.result.isError
  /\ mcp.sent = <<>>

\* the parts of C28 that do not depend on the body of a 2xx response: for
\* valid input the handler does not throw, it sends exactly one request, a
\* rejected fetch gives worker_unavailable and a response outside 2xx gives
\* worker_error with its status
McpOneRequestNoThrow ==
  (mcp.pc # "idle" /\ ~InvalidMcpInput)
    => /\ mcp.pc # "threw"
       /\ Len(mcp.sent) = 1
       /\ mcp.sent[1] = McpRequest(mcp.tool, mcp.arg)
       /\ (mcp.pc = "done" /\ mcp.fetched # "response")
            => /\ mcp.result.isError
               /\ mcp.result.text.data.error = "worker_unavailable"
       /\ (mcp.pc = "done" /\ mcp.fetched = "response"
             /\ (mcp.status < 200 \/ mcp.status > 299))
            => /\ mcp.result.isError
               /\ mcp.result.text.data.error = "worker_error"
               /\ mcp.result.text.data.status = mcp.status

\* a response with a status of 2xx has been handled
TwoHundredHandled ==
  /\ mcp.pc = "done"
  /\ ~InvalidMcpInput
  /\ mcp.fetched = "response"
  /\ mcp.status >= 200 /\ mcp.status <= 299

ReadLoopReturns == (whois.pc \in {"looptop", "await"}) ~> (whois.pc = "done")

\* C30: every WHOIS lookup that was started returns, also when the server
\* never lets the write of the query or a read settle.
C30_LookupReturns ==
  (whois.pc \in {"connect", "write", "looptop", "await"}) ~> (whois.pc = "done")

\* C31: in the loop of reads the deadline is the one taken before the first
\* read; a read is only started before the deadline, its timer is due at
\* the deadline and not later, and the clock never passes the deadline
\* while the loop runs, however many chunks have been appended.
C31_OneDeadline ==
  /\ whois.pc \in {"looptop", "await"}
       => /\ whois.deadline = WHOIS_TIMEOUT_MS
          /\ whois.elapsed <= whois.deadline
  /\ whois.pc = "await"
       => /\ whois.readAt < whois.deadline
          /\ whois.timer = whois.deadline

\* chunks arrived one by one while time passed, a later read was started
\* with less than the whole timeout left, and the loop ended at the deadline
C31_Witness ==
  /\ whois.pc = "done"
  /\ whois.stop = "deadline"
  /\ Len(whois.response) >= 3
  /\ whois.readAt >= 1
  /\ whois.timer = whois.deadline
  /\ whois.elapsed = whois.deadline

\* the fetches of the lookup that were issued and have not settled
RdapInFlight == rdap.attempts - Len(rdap.kinds)

\* C32: a second request has only been issued when the first attempt had
\* settled and was transient and the whole delay had passed since; at no
\* time are two requests of one lookup in flight.
C32_RetryAfterClassificationAndDelay ==
  /\ RdapInFlight = (IF rdap.pc \in {"first", "retry"} THEN 1 ELSE 0)
  /\ rdap.attempts = 2
       => /\ Len(rdap.kinds) >= 1
          /\ rdap.kinds[1] = "response" <=> rdap.first # <<>>
          /\ TransientOutcome(rdap.first)
          /\ rdap.waited >= RetryDelayMs
  /\ rdap.attempts < 2 => rdap.pc \in {"idle", "first", "delay", "done", "threw"}

\* the retry is in flight, after a first attempt that got a 503 and after
\* the delay
C32_Witness ==
  /\ rdap.pc = "retry"
  /\ rdap.first = <<503>>
  /\ rdap.kinds = <<"response">>
  /\ rdap.waited = RetryDelayMs
  /\ RdapInFlight = 1

\* the result that the outcome of one attempt gives by itself
ResultOfStatus(httpStatus) ==
  IF httpStatus = <<200>> THEN [status |-> "taken"]
  ELSE IF httpStatus = <<404>> THEN [status |-> "available"]
  ELSE IF httpStatus = <<>> THEN [status |-> "unknown", reason |-> <<"timeout">>]
  ELSE [status |-> "unknown", reason |-> <<"http_", httpStatus[1]>>]

\* C39: the result of a lookup that retried is the one the retry's outcome
\* gives by itself: taken for a 200 and available for a 404, both without a
\* reason, whatever the first attempt was.
C39_RetryAloneDecides ==
  (rdap.pc = "done" /\ rdap.attempts = 2)
    => /\ (rdap.kinds[2] = "response") <=> (rdap.httpStatus # <<>>)
       /\ DOMAIN rdap.result = DOMAIN ResultOfStatus(rdap.httpStatus)
       /\ rdap.result = ResultOfStatus(rdap.httpStatus)
       /\ rdap.httpStatus = <<200>> => rdap.result = [status |-> "taken"]
       /\ rdap.httpStatus = <<404>> => rdap.result = [status |-> "available"]

\* a 429 followed by a 404 on the retry has given available
C39_Witness ==
  /\ rdap.pc = "done"
  /\ rdap.attempts = 2
  /\ rdap.first = <<429>>
  /\ rdap.httpStatus = <<404>>
  /\ rdap.result = [status |-> "available"]

\* the text has a character that is no white space
NonBlank(text) == \E i \in 1..Len(text) : text[i] # " "

HasMarker(text) == \E i \in 1..Len(text) : text[i] = "Domain Name:"

\* C40: for whois.nic.st and whois.mynic.my a lookup that returned a text
\* which is not blank never comes out unknown: without the marker
\* 'Domain Name:' the domain is available (also when the text was cut short
\* by the deadline or the size guard), with it the domain is taken.
C40_NonBlankNeverUnknown ==
  (/\ whois.pc = "done"
   /\ whois.server \in {<<"whois.nic.st">>, <<"whois.mynic.my">>}
   /\ NonBlank(whois.raw))
    => /\ whois.parsed
       /\ whois.result.status = (IF HasMarker(whois.raw) THEN "taken" ELSE "available")
       /\ DOMAIN whois.result = {"status"}

\* a text from whois.nic.st was cut short by the size guard before any
\* marker, and the domain came out available
C40_Witness ==
  /\ whois.pc = "done"
  /\ whois.server = <<"whois.nic.st">>
  /\ whois.stop = "overflow"
  /\ NonBlank(whois.raw)
  /\ ~HasMarker(whois.raw)
  /\ whois.result.status = "available"

\* the letters, digits, dot and hyphen among the characters of the model
StatedQueryChars == {"a", "A", "1", ".", "-"}

\* a text with the characters outside a set removed
RECURSIVE Only(_, _)
Only(text, kept) ==
  IF text = <<>> THEN <<>>
  ELSE (IF Head(text) \in kept THEN <<Head(text)>> ELSE <<>>) \o Only(Tail(text), kept)

\* C36: the query is the server's prefix, if it has one, then the domain
\* without its characters outside letters, digits, dot and hyphen, then
\* CR LF; it has no other CR or LF, and no space after the prefix.
C36_QueryIsOneLine ==
  query.pc = "done"
    => LET q == query.result
           n == Len(query.result)
           p == Len(QueryPrefix(query.server)) IN
       /\ q = QueryPrefix(query.server) \o Only(query.domain, StatedQueryChars)
                 \o <<"CR", "LF">>
       /\ n >= 2 /\ q[n - 1] = "CR" /\ q[n] = "LF"
       /\ \A i \in 1..(n - 2) : q[i] \notin {"CR", "LF"}
       /\ \A i \in (p + 1)..n : q[i] # " "
       /\ query.server = "whois.registry.co" => p = 0

\* a domain with a line break and a space in it has given a query of one
\* line
C36_Witness ==
  /\ query.pc = "done"
  /\ query.server = "whois.registry.co"
  /\ query.domain = <<"LF", "a", " ">>
  /\ query.result = <<"a", "CR", "LF">>

\* no incrementMonthlyCount call is between its get and its return
NoIncrementInFlight == \A s \in Slots : req[s].incM \notin {"get", "put"}

\* C34: with overlapping requests, a positive ceiling and the month's
\* counter starting at zero, whenever a count at or above the ceiling is
\* stored and no increment is in flight, sendBreakerAlert has been called
\* at least once.
C34_AlertAtLeastOnce ==
  (monthlyQuotaLimit > 0 /\ MonthlyCount(circuitKV) >= monthlyQuotaLimit
     /\ NoIncrementInFlight)
    => alerts >= 1

\* two overlapping increments both read the count below the ceiling and
\* both stored the ceiling: the alert was called twice
C34_Witness ==
  /\ MonthlyCount(circuitKV) = monthlyQuotaLimit
  /\ NoIncrementInFlight
  /\ alerts = 2


\* the checksUsed stored for a client (0 when the record is missing)
StoredChecksUsed(kv, ip) == checkQuota(kv[ip], FALSE).checksUsed

\* C37 as stated: no step lowers the checksUsed stored for a client, whatever
\* the interleaving of the requests.
C37_ChecksUsedNeverDecreases ==
  [][\A ip \in Clients :
       StoredChecksUsed(quotaKV', ip) >= StoredChecksUsed(quotaKV, ip)]_vars


\* by how much n exceeds the ceiling
Overshoot(n, ceiling) == Max(0, n - ceiling)

\* C35 as stated: with a reliable store and at most K requests in flight,
\* the successful upstream calls exceed the breaker ceiling by at most K - 1
\* and the successful calls of one client exceed its allotment by at most
\* K - 1.
C35_OvershootAtMostKMinusOne ==
  /\ Overshoot(SumOver(calls, Clients), monthlyQuotaLimit) <= maxInFlight - 1
  /\ \A ip \in Clients : Overshoot(calls[ip], freeChecksPerIP) <= maxInFlight - 1

\* C35 amended: with a reliable store and one request at a time, neither the
\* breaker ceiling nor a client's allotment is exceeded by the successful
\* upstream calls (with more requests in flight, lost updates let the
\* overshoot pass K - 1).
C35_NoOvershootOneAtATime ==
  maxInFlight = 1 =>
    /\ SumOver(calls, Clients) <= monthlyQuotaLimit
    /\ \A ip \in Clients : calls[ip] <= freeChecksPerIP

\* C35 witness: one request at a time; a client has used its whole allotment,
\* the calls of all clients have reached the breaker ceiling, and the next
\* request is rejected by the breaker.
C35_Witness ==
  /\ maxInFlight = 1
  /\ \E ip \in Clients : calls[ip] = freeChecksPerIP
  /\ SumOver(calls, Clients) = monthlyQuotaLimit
  /\ Done(1)
  /\ req[1].guard = "breaker"


\* the endpoints whose handlers pass the default ceiling
DefaultCeilingEndpoints == Endpoints \ {"/v1/version"}

\* a request that arrived when as many requests of its client as the default
\* ceiling had been let through is limited at the three endpoints of that
\* ceiling, and the version endpoint lets a request through whenever fewer
\* than its own ceiling had been let through
LimitedByRequestsLetThrough ==
  \A s \in Slots :
    LET t == burst.task[s] IN
    t.pc = "done" =>
      /\ (t.endpoint \in DefaultCeilingEndpoints /\ t.before >= maxPerMinute) => t.limited
      /\ (t.endpoint = "/v1/version" /\ t.before < versionMaxPerMinute) => ~t.limited

\* C38 as stated: all four endpoints count in one record per client and
\* window, so after maxPerMinute requests of any mix were let through, every
\* further request to the three endpoints of that ceiling is limited, while
\* the version endpoint is let through up to its own ceiling.
C38_SharedBurstCounter == LimitedByRequestsLetThrough

\* C38 amended: with a reliable store and one request at a time, the record
\* of a client holds the number of its requests that any of the four
\* endpoints let through, and the statement above holds.
C38_SharedBurstCounterOneAtATime ==
  maxInFlight = 1 =>
    /\ \A ip \in Clients :
         (\A s \in Slots : burst.task[s].pc # "put")
           => RateCount(rateKV[ip]) = burst.allowed[ip]
    /\ LimitedByRequestsLetThrough

\* C38 witness: one request at a time; a request to /v1/check is limited
\* after the client's requests to other endpoints filled the window up to
\* the version ceiling.
C38_Witness ==
  /\ maxInFlight = 1
  /\ burst.task[1].pc = "done"
  /\ burst.task[1].endpoint = "/v1/check"
  /\ burst.task[1].limited
  /\ burst.task[1].before = versionMaxPerMinute

=============================================================================
